---- MODULE Spec2Model ----
(***************************************************************************)
(* A model of positional-args (src/src/positional.js, second library in    *)
(* the file: Argument, Command, CommandError, SetupError).                 *)
(*                                                                         *)
(* One Command object is modelled.  Its private fields are the variables;  *)
(* builder calls and parse/execute calls are the actions.  The outcome of  *)
(* the latest call (what it returned or threw, which user functions and    *)
(* Argument.parse calls it made, and the caller's token array afterwards)  *)
(* is recorded in `last`.  One Argument object that belongs to no Command  *)
(* is modelled next to it, and one CommandRegistry.  The ownership of      *)
(* Argument objects by Command objects is modelled by further Command and  *)
(* Argument objects of which only the async flags and the references are   *)
(* kept.                                                                   *)
(***************************************************************************)
EXTENDS Integers, Sequences, FiniteSets, TLC

VARIABLES
    argsets,      \* Command.#argsets: sequence of sequences of Arguments
    is_async,     \* Command.#is_async
    handler,      \* Command.#handler: "none" or the kind of function installed
    handler_err,  \* Command.#handler_err: "none" or the kind of function installed
    last,         \* the latest call under observation and its outcome
    argument,     \* an Argument object used on its own (Argument.parse)
    registry,     \* the CommandRegistry: #is_async, the Map `commands` from
                  \* names to Command objects, and #default_handler ("none"
                  \* or the kind of function)
    cmds,         \* the further Command objects: #name, #is_async, and
                  \* #argsets as sequences of references to Argument objects
    arg_async,    \* Argument._async of each further Argument object
    flights,      \* the async calls on the Command in flight: the local
                  \* variables of each
    allocated     \* the arrays and objects those calls allocated

\* The further Command and Argument objects
graph == <<cmds, arg_async>>

\* The calls in flight and what they allocated
inflight == <<flights, allocated>>

vars == <<argsets, is_async, handler, handler_err, last, argument, registry,
          graph, inflight>>

(***************************************************************************)
(* Bounds of the model.                                                    *)
(***************************************************************************)
MaxSetLen == 2      \* longest argument set handed to addArgSet
MaxTokens == 3      \* longest token array handed to parse / execute
MaxPieces == 3      \* longest string (in pieces) handed to parse / execute

(***************************************************************************)
(* JavaScript values.  Every value is a record of one shape, so that any   *)
(* two of them can be compared: k is the kind, s the payload of a string,  *)
(* xs the elements of an array.                                            *)
(***************************************************************************)
Undefined == [k |-> "undefined", s |-> "", xs |-> <<>>]
Null      == [k |-> "null", s |-> "", xs |-> <<>>]
Str(s)    == [k |-> "string", s |-> s, xs |-> <<>>]
Arr(xs)   == [k |-> "array", s |-> "", xs |-> xs]

\* Values that are neither absent, nor a string, nor an array
Obj  == [k |-> "object", s |-> "", xs |-> <<>>]
Bool == [k |-> "boolean", s |-> "", xs |-> <<>>]

\* A Promise held as a value: settled is "fulfilled" or "rejected", and xs
\* holds the value it fulfills with
PromiseValue(settled, val) == [k |-> "promise", s |-> settled, xs |-> <<val>>]

\* [x1, ..., xn].map(Str)
StrAll(toks) == [i \in 1..Len(toks) |-> Str(toks[i])]

\* `x == null` of JavaScript: true of undefined and of null
IsNullish(v) == v.k \in {"undefined", "null"}

\* `!x` of JavaScript for the values above: undefined, null and '' are falsy
IsFalsy(v) == IsNullish(v) \/ (v.k = "string" /\ v.s = "")

\* An object with no keys, and parsed[key] = val
EmptyObj == [key \in {} |-> Undefined]
SetKey(obj, key, val) ==
    [x \in DOMAIN obj \cup {key} |-> IF x = key THEN val ELSE obj[x]]

(***************************************************************************)
(* Errors.  nested is the empty sequence or holds the one wrapped value;   *)
(* command is TRUE once Command.#wrap has tagged the error.                *)
(***************************************************************************)
CommandError(message, nested) ==
    [type |-> "CommandError", message |-> message, nested |-> nested,
     command |-> FALSE]

\* `new RangeError(message)` thrown by user code
RangeError(message) ==
    [type |-> "RangeError", message |-> message, nested |-> <<>>,
     command |-> FALSE]

\* `new Error(message)` thrown by user code
UserError(message) ==
    [type |-> "Error", message |-> message, nested |-> <<>>, command |-> FALSE]

\* A TypeError raised by the engine
TypeError(message) ==
    [type |-> "TypeError", message |-> message, nested |-> <<>>,
     command |-> FALSE]

\* `throw value` of user code with a value that is no Error (a string)
ThrownValue(text) ==
    [type |-> "string", message |-> text, nested |-> <<>>, command |-> FALSE]

\* `value instanceof Error`
IsErrorObject(value) == value.type # "string"

\* get CommandError.full_message
full_message(err) ==
    IF err.nested # <<>> /\ IsErrorObject(err.nested[1])
                        /\ err.nested[1].message # ""
    THEN err.message \o ": " \o err.nested[1].message
    ELSE err.message

\* Command.#wrap: injects the Command into CommandErrors only
wrap(err) ==
    IF err.type = "CommandError" THEN [err EXCEPT !.command = TRUE] ELSE err

(***************************************************************************)
(* The record of one call of a user function or of Argument.parse.         *)
(***************************************************************************)
Call(fn, arg, input, args, forward, err) ==
    [fn |-> fn, arg |-> arg, input |-> input, args |-> args,
     forward |-> forward, err |-> err]

ParseCall(arg, input) == Call("parse", arg.name, input, EmptyObj, <<>>, <<>>)
PreCall(arg, input)   == Call("preprocessor", arg.name, input, EmptyObj, <<>>, <<>>)
HandlerCall(args, forward) == Call("handler", "", Undefined, args, forward, <<>>)
ErrorCall(err, forward)    == Call("error", "", Undefined, EmptyObj, forward, <<err>>)

(***************************************************************************)
(* Preprocessors (user functions).  "none": no preprocessor installed.     *)
(* "conv": val => { if (val === 'bad') throw new Error('not valid');       *)
(*                  return '#' + val }                                     *)
(* "check": val => { if (val === 'bad') throw new Error('not valid') }     *)
(*          (returns nothing)                                              *)
(* "range": val => { if (val === 'bad') throw new RangeError('x is bad') } *)
(* "async": async val => { if (val === 'bad')                              *)
(*                             throw new RangeError('x is bad');           *)
(*                         return '#' + val }                              *)
(***************************************************************************)
PreKinds == {"none", "conv", "check"}

\* Whether the function is an async function: it returns a Promise and
\* never throws
PreIsAsync(kind) == kind = "async"

\* Whether the function throws (or the Promise it returns rejects)
PreThrows(kind, input) == input.k = "string" /\ input.s = "bad"

\* What it throws (or rejects with)
PreThrown(kind) ==
    IF kind \in {"range", "async"} THEN RangeError("x is bad")
    ELSE UserError("not valid")

\* What it returns (or the Promise it returns fulfills with)
PreReturns(kind, input) ==
    IF kind \in {"conv", "async"} THEN Str("#" \o input.s) ELSE Undefined

(***************************************************************************)
(* Argument                                                                *)
(***************************************************************************)
\* new Argument(name) followed by the builder calls optional, varargs, preprocess
Argument(name, optional, varargs, pre) ==
    [name |-> name, optional |-> optional, varargs |-> varargs, pre |-> pre,
     async |-> FALSE]

\* The result of a step of Argument.parse: the value returned, or the error
\* thrown (err non-empty), and the calls made on the way.  later says that
\* the step handed back a Promise, which settles to the value or the error.
Returned(val, log) == [val |-> val, err |-> <<>>, log |-> log, later |-> FALSE]
Threw(err, log) ==
    [val |-> Undefined, err |-> <<err>>, log |-> log, later |-> FALSE]
ResolvesTo(val, log) == [val |-> val, err |-> <<>>, log |-> log, later |-> TRUE]
RejectsWith(err, log) ==
    [val |-> Undefined, err |-> <<err>>, log |-> log, later |-> TRUE]

\* `${input}` inside a message
Show(input) == IF input.k = "string" THEN input.s ELSE input.k

\* `${index + 1}`
RECURSIVE Decimal(_)
Decimal(n) ==
    IF n < 10
    THEN <<"0", "1", "2", "3", "4", "5", "6", "7", "8", "9">>[n + 1]
    ELSE Decimal(n \div 10) \o Decimal(n % 10)

\* const getReturnValue = val => val === undefined ? input : val
getReturnValue(input, val) == IF val = Undefined THEN input ELSE val

\* The context without the position of the element
throwWithContext_NoIndex(arg, input, index, err) ==
    CommandError("Bad <" \o arg.name \o "> value '" \o Show(input) \o "'",
                 <<err>>)

\* The error throwWithContext throws for err; index is -1 when not given
throwWithContext(arg, input, index, err) ==
    CommandError(
        "Bad <" \o arg.name \o ">"
            \o (IF index >= 0 THEN "(" \o Decimal(index + 1) \o ")" ELSE "")
            \o " value '" \o Show(input) \o "'",
        <<err>>)

\* Argument._applyPreprocessor(input, index); index is -1 when not given
applyPreprocessor(arg, input, index) ==
    IF IsFalsy(input) /\ arg.optional THEN Returned(Null, <<>>)
    ELSE IF arg.pre = "none" THEN Returned(input, <<>>)
    ELSE IF PreIsAsync(arg.pre) /\ arg.async
    THEN \* processed.then(getReturnValue).catch(throwWithContext)
         IF PreThrows(arg.pre, input)
         THEN RejectsWith(
                  throwWithContext(arg, input, index, PreThrown(arg.pre)),
                  <<PreCall(arg, input)>>)
         ELSE ResolvesTo(getReturnValue(input, PreReturns(arg.pre, input)),
                         <<PreCall(arg, input)>>)
    ELSE IF PreIsAsync(arg.pre)
    THEN \* getReturnValue(processed), processed being the Promise
         Returned(PromiseValue(IF PreThrows(arg.pre, input)
                               THEN "rejected" ELSE "fulfilled",
                               PreReturns(arg.pre, input)),
                  <<PreCall(arg, input)>>)
    ELSE IF PreThrows(arg.pre, input)
    THEN Threw(throwWithContext(arg, input, index, PreThrown(arg.pre)),
               <<PreCall(arg, input)>>)
    ELSE Returned(getReturnValue(input, PreReturns(arg.pre, input)),
                  <<PreCall(arg, input)>>)

\* Argument._parseSingle(arg)
parseSingle(arg, input) ==
    IF IsNullish(input) /\ ~arg.optional
    THEN Threw(CommandError(
                   "Too few arguments! Missing argument <" \o arg.name \o ">",
                   <<>>), <<>>)
    ELSE applyPreprocessor(arg, input, -1)

\* args.map((val, index) => this._applyPreprocessor(val, index)): acc holds
\* the elements mapped so far.  A preprocessor that throws ends the map; a
\* Promise that rejects later does not, and the first such rejection is kept
\* in acc.err.
RECURSIVE MapPreprocessor(_, _, _, _)
RECURSIVE MapElement(_, _, _, _, _)
MapElement(arg, xs, i, acc, r) ==
    IF r.err # <<>> /\ ~r.later
    THEN Threw(r.err[1], acc.log \o r.log)
    ELSE MapPreprocessor(arg, xs, i + 1,
             [val |-> Arr(Append(acc.val.xs, r.val)),
              err |-> IF acc.err # <<>> THEN acc.err ELSE r.err,
              log |-> acc.log \o r.log,
              later |-> acc.later \/ r.later])

MapPreprocessor(arg, xs, i, acc) ==
    IF i > Len(xs) THEN acc
    ELSE MapElement(arg, xs, i, acc, applyPreprocessor(arg, xs[i], i - 1))

\* return this._async ? Promise.all(vals) : vals
allVals(arg, vals) ==
    IF vals.err # <<>> /\ ~vals.later THEN vals
    ELSE IF ~arg.async THEN Returned(vals.val, vals.log)
    ELSE IF vals.err # <<>> THEN RejectsWith(vals.err[1], vals.log)
    ELSE ResolvesTo(vals.val, vals.log)

\* if (args == null) args = []; else if (!Array.isArray(args)) args = [args]
asArray(input) ==
    IF IsNullish(input) THEN <<>>
    ELSE IF input.k # "array" THEN <<input>>
    ELSE input.xs

\* An absent input taken for the empty array, required or not
parseVarargs_AbsentAsEmpty(arg, input) ==
    allVals(arg,
        MapPreprocessor(arg, asArray(input), 1, Returned(Arr(<<>>), <<>>)))

\* Argument._parseVarargs(args)
parseVarargs(arg, input) ==
    IF IsNullish(input) /\ ~arg.optional
    THEN Threw(CommandError(
                   "Too few arguments! Argument <" \o arg.name
                       \o "> requires at least one value.",
                   <<>>), <<>>)
    ELSE allVals(arg,
             MapPreprocessor(arg, asArray(input), 1, Returned(Arr(<<>>), <<>>)))

\* Argument._parseStart(args)
parseStart(arg, input) ==
    IF arg.varargs THEN parseVarargs(arg, input) ELSE parseSingle(arg, input)

\* args != null && !isString(args) && !Array.isArray(args)
IsIllTyped(input) == input.k \notin {"undefined", "null", "string", "array"}

\* type(args): Object.prototype.toString.call(args)
TypeName(input) ==
    IF input.k = "boolean" THEN "[object Boolean]" ELSE "[object Object]"

\* What the caller of Argument.parse receives once r, the outcome of the
\* body, is known: thrown at once, or a Promise (deferred), or plain.
\* how: "return" / "throw" for a plain value and a synchronous throw,
\* "resolve" / "reject" for a Promise and what it settles to.
parseOutcome(deferred, r, call) ==
    [val |-> r.val, err |-> r.err, log |-> <<call>> \o r.log, later |-> deferred,
     how |-> IF deferred
             THEN IF r.err = <<>> THEN "resolve" ELSE "reject"
             ELSE IF r.err = <<>> THEN "return" ELSE "throw"]

\* Argument.parse(args)
ArgumentParse(arg, input) ==
    IF IsIllTyped(input)
    THEN parseOutcome(FALSE,
             Threw(CommandError(
                       "args was " \o TypeName(input)
                           \o ", expected [object String] or 'Array<string>'",
                       <<>>), <<>>),
             ParseCall(arg, input))
    ELSE parseOutcome(arg.async, parseStart(arg, input), ParseCall(arg, input))

(***************************************************************************)
(* Command.addArgSet                                                       *)
(***************************************************************************)
\* Array.prototype.findIndex: 0-based index of the first element satisfying
\* P, or -1
FindIndex(seq, P(_)) ==
    IF \E i \in 1..Len(seq) : P(seq[i])
    THEN (CHOOSE i \in 1..Len(seq) :
              P(seq[i]) /\ \A j \in 1..(i - 1) : ~P(seq[j])) - 1
    ELSE -1

\* Array.prototype.find(...) used as a condition: an element satisfying P
\* exists (Arguments and arrays are truthy, the empty array included)
Finds(seq, P(_)) == \E i \in 1..Len(seq) : P(seq[i])

IsOptional(arg) == arg.optional
IsVarargs(arg)  == arg.varargs

\* const hasVarargs = (set) => set.find(arg => arg._varargs)
hasVarargs(set) == Finds(set, IsVarargs)

\* allsets.reduce((max, cur) => (cur.length > max ? cur.length : max), 0)
RECURSIVE MaxLenFrom(_, _, _)
MaxLenFrom(sets, i, max) ==
    IF i > Len(sets) THEN max
    ELSE MaxLenFrom(sets, i + 1, IF Len(sets[i]) > max THEN Len(sets[i]) ELSE max)

max_set_len(allsets) == MaxLenFrom(allsets, 1, 0)

\* allsets.filter(hasVarargs).length
CountVarargsSets(allsets) ==
    Cardinality({i \in 1..Len(allsets) : hasVarargs(allsets[i])})

pre == "Ambiguous argument sets"

\* A held set compared with the last held set only
SameLengthHeld_LastOnly(held, argset) ==
    Len(held) > 0 /\ Len(held[Len(held)]) = Len(argset)

\* this.#argsets.find(set => set.length === argset.length)
SameLengthHeld(held, argset) ==
    LET SameLen(set) == Len(set) = Len(argset)
    IN  Finds(held, SameLen)

\* The position of the last optional Argument instead of the first
OptionalNotLast_LastIndex(argset) ==
    /\ Finds(argset, IsOptional)
    /\ ~argset[Len(argset)].optional

\* argset.find(arg => arg._optional) &&
\*     argset.findIndex(arg => arg._optional) != argset.length - 1
OptionalNotLast(argset) ==
    /\ Finds(argset, IsOptional)
    /\ FindIndex(argset, IsOptional) # Len(argset) - 1

\* hasVarargs(argset) &&
\*     argset.findIndex(arg => arg._varargs) != argset.length - 1
VarargsNotLast(argset) ==
    /\ hasVarargs(argset)
    /\ FindIndex(argset, IsVarargs) # Len(argset) - 1

\* allsets.filter(hasVarargs).length > 1
MultipleVarargsSets(allsets) == CountVarargsSets(allsets) > 1

\* The rule applied to the set being added only, not to the held sets
VarargsSetNotLargest_NewSetOnly(allsets) ==
    /\ hasVarargs(allsets[Len(allsets)])
    /\ Len(allsets[Len(allsets)]) # max_set_len(allsets)

\* allsets.find(hasVarargs) && (allsets.findIndex(hasVarargs) !==
\*     allsets.findIndex(set => set.length === max_set_len))
VarargsSetNotLargest(allsets) ==
    LET IsMaxLen(set) == Len(set) = max_set_len(allsets)
    IN  /\ Finds(allsets, hasVarargs)
        /\ FindIndex(allsets, hasVarargs) # FindIndex(allsets, IsMaxLen)

\* The checks of addArgSet in the order of the code: the message of the
\* SetupError thrown, or "" when the set is accepted.
AddArgSetError(held, argset) ==
    LET allsets == Append(held, argset)
    IN  IF SameLengthHeld(held, argset)
        THEN pre \o ": Multiple sets of length " \o Decimal(Len(argset))
        ELSE IF OptionalNotLast(argset)
        THEN pre \o ": optional argument must be last in set"
        ELSE IF VarargsNotLast(argset)
        THEN pre \o ": varargs argument must be last in set"
        ELSE IF MultipleVarargsSets(allsets)
        THEN pre \o ": Multiple sets containing varargs"
        ELSE IF VarargsSetNotLargest(allsets)
        THEN pre \o ": set containing varargs must be largest set"
        ELSE ""

\* Command.#applyAsyncToArgsets: arg.asynchronous(this.is_async) on every
\* Argument of every held set
applyAsyncToArgsets(sets, enabled) ==
    [i \in 1..Len(sets) |->
        [j \in 1..Len(sets[i]) |-> [sets[i][j] EXCEPT !.async = enabled]]]

(***************************************************************************)
(* Command.parse                                                           *)
(***************************************************************************)
\* The arrays a parse call works on.  parts is the caller's array, copy and
\* raw are the two arrays made by parts.slice().  Work names the array the
\* Arguments consume (`const copy = parts.slice()`), and Raw the array that
\* parsed['_'] refers to (`parsed['_'] = parts.slice()`).
Work == "copy"
Raw  == "raw"

\* A reference to one of the arrays above, as held in parsed['_']
Ref(name) == [k |-> "ref", s |-> name, xs |-> <<>>]

\* The object as the caller sees it: references followed
Deref(obj, heap) ==
    [key \in DOMAIN obj |->
        IF obj[key].k = "ref" THEN Arr(StrAll(heap[obj[key].s])) ELSE obj[key]]

\* parsed[arg._name] = arg.parse(...): r is what arg.parse returned or threw;
\* the assignment happens only when it returned.
assignParsed(arg, st, r) ==
    IF r.err # <<>>
    THEN [st EXCEPT !.err = r.err, !.log = @ \o r.log]
    ELSE [st EXCEPT !.parsed = SetKey(@, arg.name, r.val), !.log = @ \o r.log]

\* parts_ref.length = 0, reached only when arg.parse(parts_ref) returned
clearParts(st) ==
    IF st.err # <<>> THEN st ELSE [st EXCEPT !.heap[Work] = <<>>]

\* parts_ref.shift(): the value shifted off, and the array afterwards
shifted(arr) == IF arr = <<>> THEN Undefined ELSE Str(Head(arr))
afterShift(arr) == IF arr = <<>> THEN <<>> ELSE Tail(arr)

\* Command.#parseSync / #parseAsync on one Argument: st holds the arrays, the
\* parsed object so far, the calls made and the error thrown, if any.
parseOne(arg, st) ==
    IF arg.varargs
    THEN clearParts(
             assignParsed(arg, st,
                 ArgumentParse(arg, Arr(StrAll(st.heap[Work])))))
    ELSE assignParsed(arg,
             [st EXCEPT !.heap[Work] = afterShift(@)],
             ArgumentParse(arg, shifted(st.heap[Work])))

\* argset.forEach(arg => this.#parseSync(...)) / executeSequentially(argset,
\* arg => this.#parseAsync(...)): in set order, stopping at the first error
RECURSIVE parseEach(_, _, _)
parseEach(argset, i, st) ==
    IF i > Len(argset) \/ st.err # <<>> THEN st
    ELSE parseEach(argset, i + 1, parseOne(argset[i], st))

\* parts_ref.map(val => `'${val}'`).join(', ')
RECURSIVE JoinQuoted(_)
JoinQuoted(toks) ==
    IF toks = <<>> THEN ""
    ELSE IF Len(toks) = 1 THEN "'" \o toks[1] \o "'"
    ELSE "'" \o toks[1] \o "', " \o JoinQuoted(Tail(toks))

\* Leftover tokens ignored
parseCheckExtraArgs_Off(st) == st

\* Command.#parseCheckExtraArgs(parts_ref)
parseCheckExtraArgs(st) ==
    IF st.err = <<>> /\ Len(st.heap[Work]) > 0
    THEN [st EXCEPT !.err = <<CommandError(
              "Too many arguments! Extras: " \o JoinQuoted(st.heap[Work]), <<>>)>>]
    ELSE st

\* The first held set, whatever the token count
SelectArgset_First(sets, ntokens) ==
    <<IF Len(sets) = 0 THEN <<>> ELSE sets[1]>>

\* The argument set parse selects for a token count: <<set>>, or <<>> when
\* no held set matches.
SelectArgset(sets, ntokens) ==
    IF Len(sets) <= 1
    THEN <<IF Len(sets) = 0 THEN <<>> ELSE sets[1]>>
    ELSE IF \E i \in 1..Len(sets) : Len(sets[i]) = ntokens
    THEN <<sets[CHOOSE i \in 1..Len(sets) :
                    Len(sets[i]) = ntokens
                    /\ \A j \in 1..(i - 1) : Len(sets[j]) # ntokens]>>
    ELSE <<>>

\* The first lines of Command.parse: the two copies and parsed['_']
parseBegin(parts) ==
    [heap |-> [parts |-> parts, copy |-> parts, raw |-> parts],
     parsed |-> SetKey(EmptyObj, "_", Ref(Raw)),
     log |-> <<>>, err |-> <<>>]

\* Command.parse once the set is selected (sel): no set, or every Argument
\* of the set in order and then the check for leftover tokens
parseArgset(sel, st) ==
    IF sel = <<>>
    THEN [st EXCEPT !.err = <<CommandError(
              "Wrong number of arguments! See command help for details",
              <<>>)>>]
    ELSE parseCheckExtraArgs(parseEach(sel[1], 1, st))

\* How Command.parse ends: `return parsed` or `throw this.#wrap(err)`.  how
\* is the calling convention of the outcome: "return" / "throw" in sync mode,
\* "resolve" / "reject" in async mode.
parseEnd(st, async) ==
    IF st.err # <<>>
    THEN [how |-> IF async THEN "reject" ELSE "throw",
          parsed |-> EmptyObj, err |-> <<wrap(st.err[1])>>,
          log |-> st.log, parts |-> st.heap.parts]
    ELSE [how |-> IF async THEN "resolve" ELSE "return",
          parsed |-> Deref(st.parsed, st.heap), err |-> <<>>,
          log |-> st.log, parts |-> st.heap.parts]

\* Command.parse(parts)
CommandParse(sets, async, parts) ==
    parseEnd(parseArgset(SelectArgset(sets, Len(parts)), parseBegin(parts)),
             async)

(***************************************************************************)
(* Command.execute                                                         *)
(***************************************************************************)
\* Handlers and error handlers (user functions).
\* handler "ret":        (args, ...forward) => ({args, forward})
\* handler "throw":      () => { throw new Error('handler err') }
\* handler "throwEmpty": () => { throw new Error('') }
\* handler "throwValue": () => { throw 'handler value' }
\* error handler "ret":  (err, ...forward) => ({err, forward})
\* error handler "throw": () => { throw new Error('error handler err') }
HandlerKinds == {"ret", "throw", "throwEmpty", "throwValue"}
ErrorHandlerKinds == {"ret", "throw"}

\* Whether the handler throws, and the value it throws
HandlerThrows(h) == h \in {"throw", "throwEmpty", "throwValue"}
HandlerThrown(h) ==
    IF h = "throwValue" THEN ThrownValue("handler value")
    ELSE IF h = "throwEmpty" THEN UserError("")
    ELSE UserError("handler err")

\* What a call hands back to its caller
NoValue == [kind |-> "undefined", args |-> EmptyObj, forward |-> <<>>, err |-> <<>>]
ArgsValue(parsed) == [NoValue EXCEPT !.kind = "args", !.args = parsed]
HandledValue(parsed, forward) ==
    [NoValue EXCEPT !.kind = "handled", !.args = parsed, !.forward = forward]
RecoveredValue(err, forward) ==
    [NoValue EXCEPT !.kind = "recovered", !.err = <<err>>, !.forward = forward]

Outcome(how, value, err, log, parts) ==
    [how |-> how, value |-> value, err |-> err, log |-> log, parts |-> parts]

\* The error handler called without the forwarded values
executeHandleError_NoForward(herr, err, forward, log, parts, ok, fail) ==
    IF herr # "none"
    THEN IF herr = "throw"
         THEN Outcome(fail, NoValue, <<UserError("error handler err")>>,
                      Append(log, ErrorCall(wrap(err), <<>>)), parts)
         ELSE Outcome(ok, RecoveredValue(wrap(err), <<>>), <<>>,
                      Append(log, ErrorCall(wrap(err), <<>>)), parts)
    ELSE Outcome(fail, NoValue, <<wrap(err)>>, log, parts)

\* Command.#executeHandleError(err, ...forward), after the calls in log.
\* ok / fail are the conventions of a value handed back and of a throw.
executeHandleError(herr, err, forward, log, parts, ok, fail) ==
    LET werr == wrap(err)
    IN  IF herr # "none"
        THEN IF herr = "throw"
             THEN Outcome(fail, NoValue, <<UserError("error handler err")>>,
                          Append(log, ErrorCall(werr, forward)), parts)
             ELSE Outcome(ok, RecoveredValue(werr, forward), <<>>,
                          Append(log, ErrorCall(werr, forward)), parts)
        ELSE Outcome(fail, NoValue, <<werr>>, log, parts)

\* What the handler throws routed on as it is, without the 'Command failed'
\* layer
callHandler_NoLayer(p, h, herr, forward, ok, fail) ==
    IF HandlerThrows(h)
    THEN executeHandleError(herr, HandlerThrown(h),
             forward, Append(p.log, HandlerCall(p.parsed, forward)),
             p.parts, ok, fail)
    ELSE Outcome(ok, HandledValue(p.parsed, forward), <<>>,
                 Append(p.log, HandlerCall(p.parsed, forward)), p.parts)

\* this.#handler(parsed_parts, ...forward) after the parse that ended as p;
\* a throw of the handler goes to #executeHandleError as 'Command failed'
callHandler(p, h, herr, forward, ok, fail) ==
    IF HandlerThrows(h)
    THEN executeHandleError(herr,
             CommandError("Command failed", <<HandlerThrown(h)>>),
             forward, Append(p.log, HandlerCall(p.parsed, forward)),
             p.parts, ok, fail)
    ELSE Outcome(ok, HandledValue(p.parsed, forward), <<>>,
                 Append(p.log, HandlerCall(p.parsed, forward)), p.parts)

\* The handler called although the parse threw
executeSyncParsed_HandlerAnyway(p, h, herr, forward) ==
    IF h # "none"
    THEN callHandler(p, h, herr, forward, "return", "throw")
    ELSE IF p.how = "throw"
    THEN executeHandleError(herr, p.err[1], forward, p.log, p.parts,
                            "return", "throw")
    ELSE Outcome("return", NoValue, <<>>, p.log, p.parts)

\* Command.#executeSync after `this.parse(parts)` ended as p
executeSyncParsed(p, h, herr, forward) ==
    IF p.how = "throw"
    THEN executeHandleError(herr, p.err[1], forward, p.log, p.parts,
                            "return", "throw")
    ELSE IF h # "none"
    THEN callHandler(p, h, herr, forward, "return", "throw")
    ELSE Outcome("return", NoValue, <<>>, p.log, p.parts)

\* Command.#executeSync(parts, ...forward)
executeSync(sets, h, herr, parts, forward) ==
    executeSyncParsed(CommandParse(sets, FALSE, parts), h, herr, forward)

\* A throw of the handler that the error handler never sees
executeAsyncParsed_HandlerUncaught(p, h, herr, forward) ==
    IF p.how = "resolve"
    THEN IF h = "none"
         THEN Outcome("resolve", NoValue, <<>>, p.log, p.parts)
         ELSE callHandler(p, h, "none", forward, "resolve", "reject")
    ELSE executeHandleError(herr, p.err[1], forward, p.log, p.parts,
                            "resolve", "reject")

\* Command.#executeAsync after `Promise.resolve(this.parse(parts))` settled
\* as p: the Promise chain, settled
executeAsyncParsed(p, h, herr, forward) ==
    IF p.how = "resolve"
    THEN IF h = "none"
         THEN Outcome("resolve", NoValue, <<>>, p.log, p.parts)
         ELSE callHandler(p, h, herr, forward, "resolve", "reject")
    ELSE executeHandleError(herr, p.err[1], forward, p.log, p.parts,
                            "resolve", "reject")

\* Command.#executeAsync(parts, ...forward)
executeAsync(sets, h, herr, parts, forward) ==
    executeAsyncParsed(CommandParse(sets, TRUE, parts), h, herr, forward)

\* Command.execute(parts, ...forward) for a token array
CommandExecute(sets, async, h, herr, parts, forward) ==
    IF async THEN executeAsync(sets, h, herr, parts, forward)
    ELSE executeSync(sets, h, herr, parts, forward)

(***************************************************************************)
(* Strings handed to parse and execute.  A string is held as the sequence  *)
(* of its pieces, each a word or one whitespace character.                 *)
(***************************************************************************)
Whitespace == {" "}

\* The number of characters of a piece
PieceLength(piece) ==
    CASE piece = "test" -> 4
      [] piece = "help" -> 4
      [] piece = "bad"  -> 3
      [] piece = ""     -> 0
      [] OTHER          -> 1

\* String.prototype.length
RECURSIVE StringLength(_)
StringLength(pieces) ==
    IF pieces = <<>> THEN 0
    ELSE PieceLength(Head(pieces)) + StringLength(Tail(pieces))

\* The string itself
RECURSIVE StringOf(_)
StringOf(pieces) ==
    IF pieces = <<>> THEN "" ELSE Head(pieces) \o StringOf(Tail(pieces))

\* string.split(/\s+/): the substrings between runs of whitespace, the empty
\* substrings before a leading and after a trailing run included.  cur is
\* the substring being read, in_run tells that the piece before was
\* whitespace.
RECURSIVE splitRuns(_, _, _, _, _)
splitRuns(pieces, i, cur, acc, in_run) ==
    IF i > Len(pieces) THEN Append(acc, cur)
    ELSE IF pieces[i] \in Whitespace
    THEN IF in_run THEN splitRuns(pieces, i + 1, cur, acc, TRUE)
         ELSE splitRuns(pieces, i + 1, "", Append(acc, cur), TRUE)
    ELSE splitRuns(pieces, i + 1, cur \o pieces[i], acc, FALSE)

\* The empty strings kept
filterBoolean_Off(toks) == toks

\* .filter(Boolean) on an array of strings
filterBoolean(toks) == SelectSeq(toks, LAMBDA tok : tok # "")

\* Command.split(string)
split(pieces) == filterBoolean(splitRuns(pieces, 1, "", <<>>, FALSE))

\* `parts_ref.length = 0` on a string, reached only when arg.parse returned
lengthOfString(st) ==
    IF st.err # <<>> THEN st
    ELSE [st EXCEPT !.err = <<TypeError(
              "Cannot assign to read only property 'length' of string")>>]

\* Command.parse on a string that is not empty, once the set is selected
\* (sel): copy is the string itself, which has slice and length but none of
\* shift and map, and whose length cannot be assigned.
parseStringArgset(sel, pieces, st) ==
    IF sel = <<>>
    THEN [st EXCEPT !.err = <<CommandError(
              "Wrong number of arguments! See command help for details",
              <<>>)>>]
    ELSE IF sel[1] = <<>>
    THEN [st EXCEPT !.err = <<TypeError("parts_ref.map is not a function")>>]
    ELSE IF sel[1][1].varargs
    THEN lengthOfString(
             assignParsed(sel[1][1], st,
                 ArgumentParse(sel[1][1], Str(StringOf(pieces)))))
    ELSE [st EXCEPT !.err = <<TypeError("parts_ref.shift is not a function")>>]

\* Command.parse(parts) with a string: `parts || []` is the empty array for
\* the empty string
CommandParseString(sets, async, pieces) ==
    IF pieces = <<>> THEN CommandParse(sets, async, <<>>)
    ELSE parseEnd(parseStringArgset(SelectArgset(sets, StringLength(pieces)),
                                    pieces, parseBegin(<<>>)),
                  async)

\* Command.execute(parts, ...forward) with a string
CommandExecuteString(sets, async, h, herr, pieces, forward) ==
    CommandExecute(sets, async, h, herr, split(pieces), forward)

(***************************************************************************)
(* CommandRegistry                                                         *)
(***************************************************************************)
\* The name of the Command of this model
CommandName == "test"

\* The Command and the Argument made by CommandRegistry.helpHandler
HelpName == "help"
HelpArg  == "command"

\* The argument sets of the help Command, whose Argument has the flag async:
\* [new Argument('command').optional(true)]
HelpArgsets(async) ==
    << <<[Argument(HelpArg, TRUE, FALSE, "none") EXCEPT !.async = async]>> >>

\* The help handler: (args, commands, ...forward) => ({args, commands,
\* forward}); "commands" stands for the Map it is handed
HelpHandlerKind == "ret"
CommandsMap == "commands"

\* new Map(), and the values of a Map
NewMap == [name \in {} |-> ""]
Values(map) == {map[name] : name \in DOMAIN map}

\* new CommandRegistry()
NewRegistry ==
    [is_async |-> FALSE, commands |-> NewMap, default_handler |-> "none"]

\* Default handlers.
\* "default": CommandRegistry.defaultDefaultHandler (defaultHandler())
\* "ret":     (parts, ...forward) => ({parts, forward})
DefaultHandlerKinds == {"default", "ret"}

DefaultCall(tokens, forward) ==
    Call("default", "", tokens, EmptyObj, forward, <<>>)
DefaultedValue(tokens, forward) ==
    [NoValue EXCEPT !.kind = "defaulted",
                    !.args = SetKey(EmptyObj, "_", tokens),
                    !.forward = forward]

\* [cmd_name, ...parts] after `const cmd_name = parts.shift()`
withName(parts) == Arr(<<shifted(parts)>> \o StrAll(afterShift(parts)))

\* this.default_handler([cmd_name, ...parts], ...forward); the default
\* default handler shifts the name off the array it is given and throws
callDefaultHandler(kind, parts, forward) ==
    IF kind = "default"
    THEN Outcome("throw", NoValue,
                 <<UserError("Unrecognized command '"
                                 \o Show(shifted(parts)) \o "'")>>,
                 <<DefaultCall(withName(parts), forward)>>, afterShift(parts))
    ELSE Outcome("return", DefaultedValue(withName(parts), forward), <<>>,
                 <<DefaultCall(withName(parts), forward)>>, afterShift(parts))

\* executeInner of CommandRegistry.execute for the token array parts: the
\* Command of this model when `commands` has the first token and holds it
\* there, the help Command (whose flags are in help) likewise, with
\* `commands` put before the forwarded values, else the default handler,
\* else nothing.  The outcome holds the
\* caller's array after `parts.shift()`.
executeInner(reg, help, sets, async, h, herr, parts, forward) ==
    IF /\ parts # <<>>
       /\ Head(parts) \in DOMAIN reg.commands
       /\ reg.commands[Head(parts)] = CommandName
    THEN CommandExecute(sets, async, h, herr, Tail(parts), forward)
    ELSE IF /\ parts # <<>>
            /\ Head(parts) \in DOMAIN reg.commands
            /\ reg.commands[Head(parts)] = HelpName
    THEN CommandExecute(HelpArgsets(help.arg_async), help.is_async,
                        HelpHandlerKind, "none", Tail(parts),
                        <<CommandsMap>> \o forward)
    ELSE IF reg.default_handler # "none"
    THEN callDefaultHandler(reg.default_handler, parts, forward)
    ELSE Outcome("return", NoValue, <<>>, <<>>, afterShift(parts))

\* executeInner() handed back as it is
promised_Off(out) == out

\* new Promise(resolve => resolve(executeInner())): a throw of executeInner
\* rejects the Promise, a Promise it returns is followed
promised(out) ==
    [out EXCEPT !.how = IF @ \in {"return", "resolve"} THEN "resolve"
                        ELSE "reject"]

\* CommandRegistry.execute(parts, ...forward) for a token array
RegistryExecuteArray(reg, help, sets, async, h, herr, parts, forward) ==
    IF reg.is_async
    THEN promised(executeInner(reg, help, sets, async, h, herr, parts, forward))
    ELSE executeInner(reg, help, sets, async, h, herr, parts, forward)

\* CommandRegistry.execute(parts, ...forward) for a string
RegistryExecuteString(reg, help, sets, async, h, herr, pieces, forward) ==
    RegistryExecuteArray(reg, help, sets, async, h, herr, split(pieces),
                         forward)

\* `help ${cmd_name}`, cmd_name being '' when it was omitted or falsy
helpString(cmd_name) == <<HelpName, " ", cmd_name>>

\* CommandRegistry.help(cmd_name, ...forward)
RegistryHelpString(reg, help, sets, async, h, herr, cmd_name, forward) ==
    RegistryExecuteString(reg, help, sets, async, h, herr,
                          helpString(cmd_name), forward)

(***************************************************************************)
(* Further Command and Argument objects, known by their names.  g holds   *)
(* cmds and arg_async.                                                     *)
(***************************************************************************)
CmdIds == {"c1", "c2"}
ArgIds == {"x", "y"}

\* new Command(name)
NewCommand(name) == [name |-> name, is_async |-> FALSE, argsets |-> <<>>]

\* The Argument objects in the argument sets of a Command
Held(cmd) ==
    UNION {{cmd.argsets[i][j] : j \in 1..Len(cmd.argsets[i])} :
              i \in 1..Len(cmd.argsets)}

\* set is_async of Command c: the field, then #applyAsyncToArgsets
setAsync(g, c, enabled) ==
    [cmds |-> [g.cmds EXCEPT ![c].is_async = enabled],
     arg_async |-> [a \in DOMAIN g.arg_async |->
                       IF a \in Held(g.cmds[c]) THEN enabled
                       ELSE g.arg_async[a]]]

\* this.#argsets.push(argset); this.#applyAsyncToArgsets() of Command c
pushArgSet(g, c, argset) ==
    setAsync([g EXCEPT !.cmds[c].argsets = Append(@, argset)],
             c, g.cmds[c].is_async)

\* The Commands left as they are
applyAsyncToCommands_Off(g, held, enabled) == g

\* CommandRegistry.#applyAsyncToCommands over the further Commands held in
\* `commands`: cmd.asynchronous(this.is_async) on each; every call writes
\* the same value, so the order of the calls does not show
applyAsyncToCommands(g, held, enabled) ==
    [cmds |-> [c \in DOMAIN g.cmds |->
                  IF c \in held THEN [g.cmds[c] EXCEPT !.is_async = enabled]
                  ELSE g.cmds[c]],
     arg_async |-> [a \in DOMAIN g.arg_async |->
                       IF \E c \in held \cap DOMAIN g.cmds : a \in Held(g.cmds[c])
                       THEN enabled ELSE g.arg_async[a]]]

\* The argument sets of a further Command as Arguments: plain required ones
AsArguments(sets) ==
    [i \in 1..Len(sets) |->
        [j \in 1..Len(sets[i]) |-> Argument(sets[i][j], FALSE, FALSE, "none")]]

(***************************************************************************)
(* Inputs                                                                  *)
(***************************************************************************)
SeqsUpTo(S, n) == UNION {[1..k -> S] : k \in 0..n}

Tokens == {"a", "bad"}
TokenArrays == SeqsUpTo(Tokens, MaxTokens)

\* The Arguments handed to addArgSet when parsing is exercised
ArgPool ==
    { Argument("first", FALSE, FALSE, "none"),
      Argument("num", FALSE, FALSE, "conv"),
      Argument("_", TRUE, FALSE, "none"),
      Argument("extras", TRUE, TRUE, "none"),
      Argument("rest", FALSE, TRUE, "check") }

ArgsetInputs == SeqsUpTo(ArgPool, MaxSetLen) \ {<<>>}

\* The argument sets handed to addArgSet when execute is exercised
ExecArgsetInputs ==
    { <<Argument("first", FALSE, FALSE, "none")>>,
      <<Argument("first", FALSE, FALSE, "none"),
        Argument("num", FALSE, FALSE, "conv")>>,
      <<Argument("first", FALSE, FALSE, "none"),
        Argument("num", FALSE, FALSE, "conv"),
        Argument("rest", FALSE, TRUE, "check")>> }

\* The Arguments handed to addArgSet when only the set rules are exercised:
\* every combination of the optional and varargs flags
FlagPool == { Argument("arg", o, v, "none") : o \in BOOLEAN, v \in BOOLEAN }

FlagArgsetInputs == SeqsUpTo(FlagPool, MaxSetLen)

Forwards == { <<>>, <<"fwd">> }

\* The functions handed to Argument.preprocess
ArgPreKinds == {"conv", "check", "range", "async"}

\* The values handed to Argument.parse: absent, of a wrong type, a string
\* (the empty string included) or an array of strings
ParseInputs ==
    {Undefined, Null, Obj, Bool}
        \cup {Str(tok) : tok \in Tokens \cup {""}}
        \cup {Arr(StrAll(toks)) : toks \in TokenArrays}

\* The strings handed to parse and execute, the empty string and strings
\* of whitespace included
Pieces == {"test", "bad", " "}
Strings == SeqsUpTo(Pieces, MaxPieces)

\* The token arrays handed to CommandRegistry.execute: the first token is
\* the name of the Command, or a name no Command has
RegistryTokenArrays == SeqsUpTo({"test", "bad"}, MaxTokens)

\* The argument sets handed to addArgSet when a registry is exercised
RegistryArgsetInputs ==
    { <<Argument("rest", FALSE, TRUE, "check")>>,
      <<Argument("first", FALSE, FALSE, "none"),
        Argument("num", FALSE, FALSE, "conv")>> }

\* The handlers installed when a registry is exercised
RegistryHandlerKinds == {"ret", "throw"}

\* The command names handed to CommandRegistry.help; '' when none is given
HelpTopics == {"", "test", "bad"}

\* The token arrays handed to CommandRegistry.execute when help is exercised
HelpTokenArrays == SeqsUpTo({"help", "test"}, MaxSetLen)

\* The argument sets handed to addArgSet when calls in flight are exercised:
\* preprocessors that return Promises, on single and on varargs Arguments
FlightArgsetInputs ==
    { <<Argument("num", FALSE, FALSE, "async")>>,
      <<Argument("first", FALSE, FALSE, "conv"),
        Argument("num", FALSE, FALSE, "async")>>,
      <<Argument("num", FALSE, FALSE, "async"),
        Argument("rest", FALSE, TRUE, "async")>> }

FlightHandlerKinds == {"ret", "throw"}

\* The token arrays of the calls in flight: the short ones, and those with
\* two elements for a varargs Argument behind a single one
FlightTokenArrays ==
    (SeqsUpTo(Tokens, MaxSetLen) \ {<<>>})
        \cup {<<"a">> \o rest : rest \in [1..2 -> Tokens]}

\* The names handed to the name setter of the further Commands
NameInputs == {"c1", "c2", ""}

\* The argument sets handed to addArgSet of the further Commands
SharedArgsetInputs == { <<"x">>, <<"y">>, <<"x", "y">> }

\* What a parse call that ended as p hands back to its caller
ParseOutcome(p) ==
    Outcome(p.how, IF p.err = <<>> THEN ArgsValue(p.parsed) ELSE NoValue,
            p.err, p.log, p.parts)

(***************************************************************************)
(* Async calls in flight.  An async parse or execute call runs up to its   *)
(* first `await` inside the call and is continued later, once per          *)
(* suspension point; in between, other calls on the same Command run.      *)
(* A call in flight is held as a record of its local variables, the        *)
(* arrays and objects it allocated being held apart, at an address.        *)
(***************************************************************************)
\* The number of calls on the Command that are in flight together
MaxFlights == 2

\* The configuration of the Command as the calls read it
Config(sets, h, herr) == [sets |-> sets, h |-> h, herr |-> herr]

\* One working buffer held by the Command for all its calls
allocate_Shared(f) == 1

\* Where `const copy = parts.slice()` and `const parsed = {}` of the f-th
\* call are allocated: fresh objects for each call
allocate(f) == f

\* What the preprocessors and the handler of a call did, in order: the
\* preprocessor of the Argument at position pos called on an element
\* ("call"), the Promise it returned settled ("fulfilled", "rejected"), the
\* handler called ("handler")
Event(e, pos, index, input) ==
    [e |-> e, pos |-> pos, index |-> index, input |-> input]

\* The local variables of a call at its start.  at: the address of copy and
\* parsed; set: the selected argument set; i: the position in the set of
\* the Argument whose arg.parse is awaited; elems: the values that Argument
\* hands to _applyPreprocessor; pend: the elements whose preprocessor result
\* is pending; vals: the values of the elements; err: what arg.parse
\* rejects with; p: how parse ended; out: what the call settles to.
Flight(op, tokens, forward, at) ==
    [op |-> op, tokens |-> tokens, forward |-> forward, at |-> at,
     set |-> <<>>, i |-> 0, elems |-> <<>>, pend |-> {}, vals |-> <<>>,
     err |-> <<>>, phase |-> "arg", events |-> <<>>,
     p |-> [how |-> "", parsed |-> EmptyObj, err |-> <<>>, log |-> <<>>,
            parts |-> <<>>],
     out |-> [how |-> "", value |-> NoValue, err |-> <<>>]]

\* const copy = parts.slice(); const parsed = {}; parsed['_'] = parts.slice()
Buffers(tokens) ==
    [copy |-> tokens, parsed |-> SetKey(EmptyObj, "_", Arr(StrAll(tokens)))]

\* A call and the buffers it works on
Running(fl, buf) == [fl |-> fl, buf |-> buf]

\* What the call settles to
Settled(out) == [how |-> out.how, value |-> out.value, err |-> out.err]

\* The values arg.parse hands to _applyPreprocessor, and the index it hands
\* along with the j-th of them (-1: none)
elementsOf(arg, input) == IF arg.varargs THEN asArray(input) ELSE <<input>>
indexOf(arg, j) == IF arg.varargs THEN j - 1 ELSE -1

\* this._applyPreprocessor(val, index) for every element
applied(arg, elems) ==
    [j \in 1..Len(elems) |-> applyPreprocessor(arg, elems[j], indexOf(arg, j))]

\* The first element whose preprocessor threw inside the call, which ends
\* args.map; Len + 1 when there is none
thrownAt(rs) ==
    IF \E j \in 1..Len(rs) : rs[j].err # <<>> /\ ~rs[j].later
    THEN CHOOSE j \in 1..Len(rs) :
             /\ rs[j].err # <<>> /\ ~rs[j].later
             /\ \A k \in 1..(j - 1) : ~(rs[k].err # <<>> /\ ~rs[k].later)
    ELSE Len(rs) + 1

\* The events of the elements 1..n: the preprocessor called, and its result
\* when it is there at once
RECURSIVE callEvents(_, _, _, _)
callEvents(pos, rs, j, n) ==
    IF j > n THEN <<>>
    ELSE (IF rs[j].log = <<>> THEN <<>>
          ELSE IF rs[j].later
          THEN <<Event("call", pos, j, rs[j].log[1].input)>>
          ELSE <<Event("call", pos, j, rs[j].log[1].input),
                 Event(IF rs[j].err = <<>> THEN "fulfilled" ELSE "rejected",
                       pos, j, rs[j].log[1].input)>>)
         \o callEvents(pos, rs, j + 1, n)

\* args.map ended at element k (Len + 1: at its end): the elements up to
\* k had their preprocessor called, and arg.parse rejects at once with what
\* element k threw
mapEnded(fl, rs, k) ==
    [fl EXCEPT
        !.pend = {j \in 1..Len(rs) : j <= k /\ rs[j].later},
        !.vals = [j \in 1..Len(rs) |-> rs[j].val],
        !.err = IF k <= Len(rs) THEN rs[k].err ELSE <<>>,
        !.events = @ \o callEvents(fl.i, rs, 1,
                                   IF k <= Len(rs) THEN k ELSE Len(rs))]

\* args.map((val, index) => this._applyPreprocessor(val, index)) with the
\* results rs of the calls
mapCalled(fl, rs) == mapEnded(fl, rs, thrownAt(rs))

\* arg.parse(input) up to the point where it hands back its Promise: the
\* check for a missing value, then the preprocessor called on each element
parseCalled(fl, arg, input) ==
    IF IsNullish(input) /\ ~arg.optional
    THEN [fl EXCEPT !.elems = <<>>, !.pend = {}, !.vals = <<>>,
                    !.err = parseStart(arg, input).err]
    ELSE mapCalled([fl EXCEPT !.elems = elementsOf(arg, input)],
                   applied(arg, elementsOf(arg, input)))

\* Command.#parseAsync(arg, parsed, parts_ref) up to its `await`: a varargs
\* Argument is handed parts_ref, any other parts_ref.shift()
parseAsyncStart(r, arg) ==
    IF arg.varargs
    THEN Running(parseCalled(r.fl, arg, Arr(StrAll(r.buf.copy))), r.buf)
    ELSE Running(parseCalled(r.fl, arg, shifted(r.buf.copy)),
                 [r.buf EXCEPT !.copy = afterShift(@)])

\* The call once parse has settled as p: a parse call settles likewise; an
\* execute call hands a parsed object to the handler, whose result is
\* awaited, and an error to #executeHandleError
parseSettled(cfg, fl, p) ==
    IF fl.op = "parse"
    THEN [fl EXCEPT !.phase = "done", !.p = p,
                    !.out = Settled(ParseOutcome(p))]
    ELSE IF p.how = "resolve" /\ cfg.h # "none"
    THEN [fl EXCEPT !.phase = "handler", !.p = p,
                    !.events = Append(@, Event("handler", 0, 0, Undefined))]
    ELSE [fl EXCEPT !.phase = "done", !.p = p,
                    !.out = Settled(executeAsyncParsed(p, cfg.h, cfg.herr,
                                                       fl.forward))]

\* The end of Command.parse: .then(() => parsed) or
\* .catch(err => { throw this.#wrap(err) })
parseEnded(cfg, r, err) ==
    Running(parseSettled(cfg, r.fl,
                parseEnd([err |-> err, parsed |-> r.buf.parsed, log |-> <<>>,
                          heap |-> [parts |-> r.fl.tokens]], TRUE)),
            r.buf)

\* executeSequentially: the next Argument of the set, or, after the last,
\* .then(() => this.#parseCheckExtraArgs(copy))
nextArg(cfg, r) ==
    IF r.fl.i < Len(r.fl.set)
    THEN parseAsyncStart([r EXCEPT !.fl.i = @ + 1], r.fl.set[r.fl.i + 1])
    ELSE parseEnded(cfg, r,
             parseCheckExtraArgs([err |-> <<>>,
                                  heap |-> [copy |-> r.buf.copy]]).err)

\* The value arg.parse resolves to
parsedValue(fl, arg) == IF arg.varargs THEN Arr(fl.vals) ELSE fl.vals[1]

\* parsed[arg._name] = await arg.parse(...), and parts_ref.length = 0 after
\* a varargs Argument
assigned(buf, arg, val) ==
    [buf EXCEPT !.parsed = SetKey(@, arg.name, val),
                !.copy = IF arg.varargs THEN <<>> ELSE @]

\* The call continued after `await arg.parse(...)` of the Argument at
\* position i: the rejection ends the parse, the value is stored and the
\* next Argument is taken
resumed(cfg, r) ==
    IF r.fl.err # <<>> THEN parseEnded(cfg, r, r.fl.err)
    ELSE IF r.fl.i = 0 THEN nextArg(cfg, r)
    ELSE nextArg(cfg,
             [r EXCEPT !.buf = assigned(@, r.fl.set[r.fl.i],
                                  parsedValue(r.fl, r.fl.set[r.fl.i]))])

\* Command.parse up to its first `await`, sel being the selected set
begunWith(cfg, r, sel) ==
    IF sel = <<>>
    THEN parseEnded(cfg, r,
             parseArgset(<<>>, [err |-> <<>>, heap |-> [copy |-> <<>>]]).err)
    ELSE IF sel[1] = <<>> THEN r
    ELSE nextArg(cfg, [r EXCEPT !.fl.set = sel[1]])

\* Command.parse(parts) / Command.execute(parts, ...forward) in async mode,
\* up to the first `await`
begun(cfg, op, tokens, forward, at) ==
    begunWith(cfg, Running(Flight(op, tokens, forward, at), Buffers(tokens)),
              SelectArgset(cfg.sets, Len(tokens)))

\* Promise.all rejecting with the latest rejection
settledAs_LatestRejection(fl, j, res) ==
    [fl EXCEPT
        !.pend = @ \ {j},
        !.vals[j] = IF res.err = <<>> THEN res.val ELSE @,
        !.err = IF fl.phase = "arg" /\ res.err # <<>> THEN res.err ELSE @,
        !.events = Append(@, Event(IF res.err = <<>> THEN "fulfilled"
                                   ELSE "rejected", fl.i, j, fl.elems[j]))]

\* The Promise of the preprocessor of element j has settled as res:
\* Promise.all takes the value, and rejects with the first rejection
settledAs(fl, j, res) ==
    [fl EXCEPT
        !.pend = @ \ {j},
        !.vals[j] = IF res.err = <<>> THEN res.val ELSE @,
        !.err = IF fl.phase = "arg" /\ @ = <<>> THEN res.err ELSE @,
        !.events = Append(@, Event(IF res.err = <<>> THEN "fulfilled"
                                   ELSE "rejected", fl.i, j, fl.elems[j]))]

settled(fl, j) ==
    settledAs(fl, j, applyPreprocessor(fl.set[fl.i], fl.elems[j],
                                       indexOf(fl.set[fl.i], j)))

\* The continuation run without waiting for the pending results
canResume_NoAwait(fl) == fl.phase = "arg"

\* Whether the Promise of arg.parse has settled
canResume(fl) == fl.phase = "arg" /\ (fl.pend = {} \/ fl.err # <<>>)

\* The Promise of the handler has settled
handled(cfg, fl) ==
    [fl EXCEPT !.phase = "done",
               !.out = Settled(executeAsyncParsed(fl.p, cfg.h, cfg.herr,
                                                  fl.forward))]

\* What a call can settle to when no other call is in flight, whatever the
\* order in which its pending results settle
RECURSIVE Finals(_, _)
Finals(cfg, r) ==
    IF r.fl.phase = "done" THEN {r.fl.out}
    ELSE UNION (
        {Finals(cfg, Running(settled(r.fl, j), r.buf)) : j \in r.fl.pend}
        \cup (IF canResume(r.fl) THEN {Finals(cfg, resumed(cfg, r))} ELSE {})
        \cup (IF r.fl.phase = "handler"
              THEN {Finals(cfg, Running(handled(cfg, r.fl), r.buf))}
              ELSE {}))

Alone(cfg, op, tokens, forward) ==
    Finals(cfg, begun(cfg, op, tokens, forward, 1))

(***************************************************************************)
(* State and actions                                                       *)
(***************************************************************************)
\* The shape of `last`.  text tells a call made with a string from a call
\* made with a token array; parts are then the pieces of the string.
CallRecord(op, parts, forward, out) ==
    [op |-> op, text |-> FALSE, parts |-> parts, forward |-> forward,
     how |-> out.how, value |-> out.value, err |-> out.err, log |-> out.log,
     parts_after |-> out.parts]

SetupError(message) ==
    [type |-> "SetupError", message |-> message, nested |-> <<>>, command |-> FALSE]

NoCall == CallRecord("new", <<>>, <<>>,
                     Outcome("return", NoValue, <<>>, <<>>, <<>>))

\* `last` holds the outcome under observation: of a rejected addArgSet, of a
\* parse or of an execute call.  A builder call that returns `this` leaves
\* nothing to observe.  A behaviour is the setup of a Command followed by one
\* observed call: a rejected addArgSet, parse and execute change no field of
\* the Command, so the states that runs with more calls reach are these same
\* states.
Setup == last = NoCall /\ flights = <<>>

\* new Command(name)
Init ==
    /\ argsets = <<>>
    /\ is_async = FALSE
    /\ handler = "none"
    /\ handler_err = "none"
    /\ last = NoCall
    /\ argument = Argument("test", FALSE, FALSE, "none")
    /\ registry = NewRegistry
    /\ cmds = [c \in CmdIds \cup {HelpName} |-> NewCommand(c)]
    /\ arg_async = [a \in ArgIds \cup {HelpArg} |-> FALSE]
    /\ flights = <<>>
    /\ allocated = <<>>

\* Command.addArgSet(argset)
AddArgSet(argset) ==
    LET message == AddArgSetError(argsets, argset)
    IN  /\ Setup
        /\ UNCHANGED inflight
        /\ IF message # ""
           THEN /\ argsets' = argsets
                /\ last' = CallRecord("addArgSet", <<>>, <<>>,
                               Outcome("throw", NoValue, <<SetupError(message)>>,
                                       <<>>, <<>>))
           ELSE /\ argsets' = applyAsyncToArgsets(Append(argsets, argset), is_async)
                /\ last' = NoCall
        /\ UNCHANGED <<is_async, handler, handler_err>>
        /\ UNCHANGED <<argument, registry, graph>>

\* Command.asynchronous(enabled) / set is_async
Asynchronous(enabled) ==
    /\ Setup
    /\ UNCHANGED inflight
    /\ is_async' = enabled
    /\ argsets' = applyAsyncToArgsets(argsets, enabled)
    /\ last' = NoCall
    /\ UNCHANGED <<handler, handler_err>>
    /\ UNCHANGED <<argument, registry, graph>>

\* Command.handler(func)
Handler(kind) ==
    /\ Setup
    /\ UNCHANGED inflight
    /\ handler' = kind
    /\ last' = NoCall
    /\ UNCHANGED <<argsets, is_async, handler_err>>
    /\ UNCHANGED <<argument, registry, graph>>

\* Command.error(func)
Error(kind) ==
    /\ Setup
    /\ UNCHANGED inflight
    /\ handler_err' = kind
    /\ last' = NoCall
    /\ UNCHANGED <<argsets, is_async, handler>>
    /\ UNCHANGED <<argument, registry, graph>>

\* Command.parse(parts)
Parse(parts) ==
    /\ Setup
    /\ UNCHANGED inflight
    /\ last' = CallRecord("parse", parts, <<>>,
                   ParseOutcome(CommandParse(argsets, is_async, parts)))
    /\ UNCHANGED <<argsets, is_async, handler, handler_err>>
    /\ UNCHANGED <<argument, registry, graph>>

\* Command.execute(parts, ...forward)
Execute(parts, forward) ==
    /\ Setup
    /\ UNCHANGED inflight
    /\ last' = CallRecord("execute", parts, forward,
                   CommandExecute(argsets, is_async, handler, handler_err,
                                  parts, forward))
    /\ UNCHANGED <<argsets, is_async, handler, handler_err>>
    /\ UNCHANGED <<argument, registry, graph>>

\* What Argument.parse hands back to its caller: the value, as the one key
\* of args
ParsedValue(val) ==
    [NoValue EXCEPT !.kind = "value", !.args = SetKey(EmptyObj, "value", val)]

\* Argument.optional(enabled)
ArgOptional(enabled) ==
    /\ Setup
    /\ UNCHANGED inflight
    /\ argument' = [argument EXCEPT !.optional = enabled]
    /\ UNCHANGED <<argsets, is_async, handler, handler_err, last, registry,
                   graph>>

\* Argument.varargs(enabled)
ArgVarargs(enabled) ==
    /\ Setup
    /\ UNCHANGED inflight
    /\ argument' = [argument EXCEPT !.varargs = enabled]
    /\ UNCHANGED <<argsets, is_async, handler, handler_err, last, registry,
                   graph>>

\* Argument.preprocess(func)
ArgPreprocess(kind) ==
    /\ Setup
    /\ UNCHANGED inflight
    /\ argument' = [argument EXCEPT !.pre = kind]
    /\ UNCHANGED <<argsets, is_async, handler, handler_err, last, registry,
                   graph>>

\* Argument.asynchronous(enabled)
ArgAsynchronous(enabled) ==
    /\ Setup
    /\ UNCHANGED inflight
    /\ argument' = [argument EXCEPT !.async = enabled]
    /\ UNCHANGED <<argsets, is_async, handler, handler_err, last, registry,
                   graph>>

\* What an Argument.parse call that ended as r hands back to its caller
ArgParseOutcome(r) ==
    Outcome(r.how, IF r.err = <<>> THEN ParsedValue(r.val) ELSE NoValue,
            r.err, r.log, <<>>)

\* Argument.parse(args)
ArgParse(input) ==
    /\ Setup
    /\ UNCHANGED inflight
    /\ last' = CallRecord("Argument.parse", <<>>, <<>>,
                   ArgParseOutcome(ArgumentParse(argument, input)))
    /\ UNCHANGED <<argsets, is_async, handler, handler_err, argument,
                   registry, graph>>

\* Command.parse(parts) with a string
ParseString(pieces) ==
    /\ Setup
    /\ UNCHANGED inflight
    /\ last' = [CallRecord("parse", pieces, <<>>,
                    ParseOutcome(CommandParseString(argsets, is_async, pieces)))
                    EXCEPT !.text = TRUE]
    /\ UNCHANGED <<argsets, is_async, handler, handler_err>>
    /\ UNCHANGED <<argument, registry, graph>>

\* Command.execute(parts, ...forward) with a string
ExecuteString(pieces, forward) ==
    /\ Setup
    /\ UNCHANGED inflight
    /\ last' = [CallRecord("execute", pieces, forward,
                    CommandExecuteString(argsets, is_async, handler,
                                         handler_err, pieces, forward))
                    EXCEPT !.text = TRUE]
    /\ UNCHANGED <<argsets, is_async, handler, handler_err>>
    /\ UNCHANGED <<argument, registry, graph>>

\* The Command of this model after #applyAsyncToCommands of a registry
\* holding the Commands held: its own setting unless it is one of them
asyncInRegistry(held, enabled, own) ==
    IF CommandName \in held THEN enabled ELSE own

\* command.name of the Command c: the Command of this model, or a further one
NameOf(c) == IF c = CommandName THEN CommandName ELSE cmds[c].name

\* CommandRegistry.add(command), with the Command of this model or one of
\* the further Commands
RegistryAdd(c) ==
    /\ Setup
    /\ UNCHANGED inflight
    /\ IF NameOf(c) \in DOMAIN registry.commands
       THEN /\ last' = CallRecord("add", <<>>, <<>>,
                           Outcome("throw", NoValue,
                               <<SetupError("Defined duplicate command '"
                                                \o NameOf(c) \o "'")>>,
                               <<>>, <<>>))
            /\ UNCHANGED <<registry, is_async, argsets, graph>>
       ELSE LET held == Values(registry.commands) \cup {c}
                g == applyAsyncToCommands(
                         [cmds |-> cmds, arg_async |-> arg_async],
                         held, registry.is_async)
            IN  /\ registry' = [registry EXCEPT
                                   !.commands = (NameOf(c) :> c) @@ @]
                /\ is_async' = asyncInRegistry(held, registry.is_async, is_async)
                /\ argsets' = applyAsyncToArgsets(argsets,
                                  asyncInRegistry(held, registry.is_async,
                                                  is_async))
                /\ cmds' = g.cmds
                /\ arg_async' = g.arg_async
                /\ last' = NoCall
    /\ UNCHANGED <<handler, handler_err, argument>>

\* CommandRegistry.asynchronous(enabled) / set is_async
RegistryAsynchronous(enabled) ==
    LET g == applyAsyncToCommands([cmds |-> cmds, arg_async |-> arg_async],
                                  Values(registry.commands), enabled)
    IN  /\ Setup
        /\ UNCHANGED inflight
        /\ registry' = [registry EXCEPT !.is_async = enabled]
        /\ is_async' = asyncInRegistry(Values(registry.commands), enabled,
                                       is_async)
        /\ argsets' = applyAsyncToArgsets(argsets,
                          asyncInRegistry(Values(registry.commands), enabled,
                                          is_async))
        /\ cmds' = g.cmds
        /\ arg_async' = g.arg_async
        /\ last' = NoCall
        /\ UNCHANGED <<handler, handler_err, argument>>

\* CommandRegistry.defaultHandler(func)
DefaultHandler(kind) ==
    /\ Setup
    /\ UNCHANGED inflight
    /\ registry' = [registry EXCEPT !.default_handler = kind]
    /\ last' = NoCall
    /\ UNCHANGED <<argsets, is_async, handler, handler_err, argument, graph>>

\* CommandRegistry.helpHandler(func): makes the help Command with its one
\* Argument and adds it, unless `commands` has the name already
HelpHandler ==
    /\ Setup
    /\ UNCHANGED inflight
    /\ IF HelpName \in DOMAIN registry.commands
       THEN UNCHANGED <<registry, is_async, argsets, graph>>
       ELSE LET held == Values(registry.commands) \cup {HelpName}
                g == applyAsyncToCommands(
                         pushArgSet(
                             [cmds |-> [cmds EXCEPT
                                           ![HelpName] = NewCommand(HelpName)],
                              arg_async |-> [arg_async EXCEPT ![HelpArg] = FALSE]],
                             HelpName, <<HelpArg>>),
                         held, registry.is_async)
            IN  /\ registry' = [registry EXCEPT
                                   !.commands = (HelpName :> HelpName) @@ @]
                /\ is_async' = asyncInRegistry(held, registry.is_async, is_async)
                /\ argsets' = applyAsyncToArgsets(argsets,
                                  asyncInRegistry(held, registry.is_async,
                                                  is_async))
                /\ cmds' = g.cmds
                /\ arg_async' = g.arg_async
    /\ last' = NoCall
    /\ UNCHANGED <<handler, handler_err, argument>>

\* The flags of the help Command and of its Argument
HelpCommand ==
    [is_async |-> cmds[HelpName].is_async, arg_async |-> arg_async[HelpArg]]

\* CommandRegistry.execute(parts, ...forward) with a token array
RegistryExecute(parts, forward) ==
    /\ Setup
    /\ UNCHANGED inflight
    /\ last' = CallRecord("registry.execute", parts, forward,
                   RegistryExecuteArray(registry, HelpCommand, argsets,
                                        is_async, handler,
                                        handler_err, parts, forward))
    /\ UNCHANGED <<argsets, is_async, handler, handler_err>>
    /\ UNCHANGED <<argument, registry, graph>>

\* CommandRegistry.execute(parts, ...forward) with a string
RegistryExecuteText(pieces, forward) ==
    /\ Setup
    /\ UNCHANGED inflight
    /\ last' = [CallRecord("registry.execute", pieces, forward,
                    RegistryExecuteString(registry, HelpCommand, argsets,
                                          is_async, handler,
                                          handler_err, pieces, forward))
                    EXCEPT !.text = TRUE]
    /\ UNCHANGED <<argsets, is_async, handler, handler_err>>
    /\ UNCHANGED <<argument, registry, graph>>

\* CommandRegistry.help(cmd_name, ...forward)
RegistryHelp(cmd_name, forward) ==
    /\ Setup
    /\ UNCHANGED inflight
    /\ last' = [CallRecord("registry.help", helpString(cmd_name), forward,
                    RegistryHelpString(registry, HelpCommand, argsets, is_async,
                                       handler, handler_err, cmd_name, forward))
                    EXCEPT !.text = TRUE]
    /\ UNCHANGED <<argsets, is_async, handler, handler_err>>
    /\ UNCHANGED <<argument, registry, graph>>

\* The configuration the calls in flight read
CommandConfig == Config(argsets, handler, handler_err)

\* Command.parse(parts) / Command.execute(parts, ...forward) in async mode:
\* the call runs up to its first `await` and is then in flight
Begin(op, parts, forward) ==
    /\ last = NoCall
    /\ is_async
    /\ Len(flights) < MaxFlights
    /\ flights' = Append(flights,
           begun(CommandConfig, op, parts, forward,
                 allocate(Len(flights) + 1)).fl)
    /\ allocated' = (allocate(Len(flights) + 1) :>
                    begun(CommandConfig, op, parts, forward,
                          allocate(Len(flights) + 1)).buf) @@ allocated
    /\ UNCHANGED <<argsets, is_async, handler, handler_err, last>>
    /\ UNCHANGED <<argument, registry, graph>>

\* The Promise a preprocessor returned for element j of call f settles
Settle(f, j) ==
    /\ f \in DOMAIN flights
    /\ j \in flights[f].pend
    /\ flights' = [flights EXCEPT ![f] = settled(@, j)]
    /\ UNCHANGED allocated
    /\ UNCHANGED <<argsets, is_async, handler, handler_err, last>>
    /\ UNCHANGED <<argument, registry, graph>>

\* Call f continues after `await arg.parse(...)`
Resume(f) ==
    /\ f \in DOMAIN flights
    /\ canResume(flights[f])
    /\ flights' = [flights EXCEPT ![f] =
           resumed(CommandConfig, Running(@, allocated[@.at])).fl]
    /\ allocated' = [allocated EXCEPT ![flights[f].at] =
           resumed(CommandConfig, Running(flights[f], @)).buf]
    /\ UNCHANGED <<argsets, is_async, handler, handler_err, last>>
    /\ UNCHANGED <<argument, registry, graph>>

\* The Promise of the handler of call f settles
HandlerSettles(f) ==
    /\ f \in DOMAIN flights
    /\ flights[f].phase = "handler"
    /\ flights' = [flights EXCEPT ![f] = handled(CommandConfig, @)]
    /\ UNCHANGED allocated
    /\ UNCHANGED <<argsets, is_async, handler, handler_err, last>>
    /\ UNCHANGED <<argument, registry, graph>>

\* Command.addArgSet(argset) of the further Command c
AddArgSetTo(c, argset) ==
    LET message == AddArgSetError(AsArguments(cmds[c].argsets),
                                  AsArguments(<<argset>>)[1])
    IN  /\ Setup
        /\ UNCHANGED inflight
        /\ IF message # ""
           THEN /\ last' = CallRecord("addArgSet", <<>>, <<>>,
                               Outcome("throw", NoValue, <<SetupError(message)>>,
                                       <<>>, <<>>))
                /\ UNCHANGED graph
           ELSE /\ cmds' = pushArgSet([cmds |-> cmds, arg_async |-> arg_async],
                                      c, argset).cmds
                /\ arg_async' = pushArgSet([cmds |-> cmds, arg_async |-> arg_async],
                                           c, argset).arg_async
                /\ last' = NoCall
        /\ UNCHANGED <<argsets, is_async, handler, handler_err, argument,
                       registry>>

\* Command.asynchronous(enabled) of the further Command c
AsynchronousOf(c, enabled) ==
    /\ Setup
    /\ UNCHANGED inflight
    /\ cmds' = setAsync([cmds |-> cmds, arg_async |-> arg_async], c, enabled).cmds
    /\ arg_async' = setAsync([cmds |-> cmds, arg_async |-> arg_async],
                             c, enabled).arg_async
    /\ UNCHANGED <<argsets, is_async, handler, handler_err, argument,
                   registry, last>>

\* Argument.asynchronous(enabled) of the further Argument a
ArgAsynchronousOf(a, enabled) ==
    /\ Setup
    /\ UNCHANGED inflight
    /\ arg_async' = [arg_async EXCEPT ![a] = enabled]
    /\ UNCHANGED <<argsets, is_async, handler, handler_err, argument,
                   registry, last, cmds>>

\* Building a Command and parsing token arrays with it
Next ==
    \/ \E argset \in ArgsetInputs : AddArgSet(argset)
    \/ \E enabled \in BOOLEAN : Asynchronous(enabled)
    \/ \E parts \in TokenArrays : Parse(parts)

Spec == Init /\ [][Next]_vars

\* Building a Command from argument sets of every flag combination
SetupNext == \E argset \in FlagArgsetInputs : AddArgSet(argset)

SetupSpec == Init /\ [][SetupNext]_vars

\* Building a Command with handlers, and parsing and executing token arrays
\* with it
ExecNext ==
    \/ \E parts \in TokenArrays : Parse(parts)
    \/ \E argset \in ExecArgsetInputs : AddArgSet(argset)
    \/ \E enabled \in BOOLEAN : Asynchronous(enabled)
    \/ \E kind \in HandlerKinds : Handler(kind)
    \/ \E kind \in ErrorHandlerKinds : Error(kind)
    \/ \E parts \in TokenArrays, forward \in Forwards : Execute(parts, forward)

ExecSpec == Init /\ [][ExecNext]_vars

\* Building an Argument and parsing values with it
ArgNext ==
    \/ \E enabled \in BOOLEAN : ArgOptional(enabled)
    \/ \E enabled \in BOOLEAN : ArgVarargs(enabled)
    \/ \E kind \in ArgPreKinds : ArgPreprocess(kind)
    \/ \E enabled \in BOOLEAN : ArgAsynchronous(enabled)
    \/ \E input \in ParseInputs : ArgParse(input)

ArgSpec == Init /\ [][ArgNext]_vars

\* Building a Command and a registry that may hold it, and parsing and
\* executing strings and token arrays with both
RegistryNext ==
    \/ \E argset \in RegistryArgsetInputs : AddArgSet(argset)
    \/ \E enabled \in BOOLEAN : Asynchronous(enabled)
    \/ \E kind \in RegistryHandlerKinds : Handler(kind)
    \/ \E kind \in ErrorHandlerKinds : Error(kind)
    \/ RegistryAdd(CommandName)
    \/ \E enabled \in BOOLEAN : RegistryAsynchronous(enabled)
    \/ \E kind \in DefaultHandlerKinds : DefaultHandler(kind)
    \/ \E parts \in RegistryTokenArrays : Parse(parts)
    \/ \E pieces \in Strings : ParseString(pieces)
    \/ \E parts \in RegistryTokenArrays, forward \in Forwards :
           Execute(parts, forward)
    \/ \E pieces \in Strings : ExecuteString(pieces, <<"fwd">>)
    \/ \E parts \in RegistryTokenArrays, forward \in Forwards :
           RegistryExecute(parts, forward)
    \/ \E pieces \in Strings : RegistryExecuteText(pieces, <<"fwd">>)

RegistrySpec == Init /\ [][RegistryNext]_vars

\* Building a registry with a Command, a default handler and a help
\* Command, and asking it for help
HelpNext ==
    \/ \E argset \in RegistryArgsetInputs : AddArgSet(argset)
    \/ \E kind \in RegistryHandlerKinds : Handler(kind)
    \/ RegistryAdd(CommandName)
    \/ \E enabled \in BOOLEAN : RegistryAsynchronous(enabled)
    \/ \E kind \in DefaultHandlerKinds : DefaultHandler(kind)
    \/ HelpHandler
    \/ \E cmd_name \in HelpTopics, forward \in Forwards :
           RegistryHelp(cmd_name, forward)
    \/ \E parts \in HelpTokenArrays, forward \in Forwards :
           RegistryExecute(parts, forward)

HelpSpec == Init /\ [][HelpNext]_vars

\* An async Command with calls in flight together
FlightNext ==
    \/ \E argset \in FlightArgsetInputs : AddArgSet(argset)
    \/ Asynchronous(TRUE)
    \/ \E kind \in FlightHandlerKinds : Handler(kind)
    \/ Error("ret")
    \/ \E op \in {"parse", "execute"}, parts \in FlightTokenArrays :
           Begin(op, parts, <<"fwd">>)
    \/ \E f \in 1..MaxFlights, j \in 1..MaxTokens : Settle(f, j)
    \/ \E f \in 1..MaxFlights : Resume(f)
    \/ \E f \in 1..MaxFlights : HandlerSettles(f)

FlightSpec == Init /\ [][FlightNext]_vars

\* The Argument objects some further Command holds
Attached == UNION {Held(cmds[c]) : c \in DOMAIN cmds}

\* Building further Commands from shared Argument objects, and a registry
\* that holds them.  Command.asynchronous is called on Commands that are in
\* no registry and Argument.asynchronous on Arguments that no Command
\* holds: an owner applies its setting when it is changed and when something
\* is added to it.
OwnerNext ==
    \/ \E c \in CmdIds, argset \in SharedArgsetInputs : AddArgSetTo(c, argset)
    \/ \E c \in CmdIds \ Values(registry.commands), enabled \in BOOLEAN :
           AsynchronousOf(c, enabled)
    \/ \E a \in ArgIds \ Attached, enabled \in BOOLEAN :
           ArgAsynchronousOf(a, enabled)
    \/ \E c \in CmdIds : RegistryAdd(c)
    \/ \E enabled \in BOOLEAN : RegistryAsynchronous(enabled)
    \/ HelpHandler

OwnerSpec == Init /\ [][OwnerNext]_vars

\* set name of the further Command c
SetName(c, name) ==
    /\ Setup
    /\ UNCHANGED inflight
    /\ IF name = ""
       THEN /\ last' = CallRecord("name", <<>>, <<>>,
                           Outcome("throw", NoValue,
                               <<SetupError("name was empty string")>>,
                               <<>>, <<>>))
            /\ UNCHANGED cmds
       ELSE /\ cmds' = [cmds EXCEPT ![c].name = name]
            /\ last' = NoCall
    /\ UNCHANGED <<argsets, is_async, handler, handler_err, argument,
                   registry, arg_async>>

\* The same, with Commands that are renamed
NamesNext ==
    \/ OwnerNext
    \/ \E c \in CmdIds, name \in NameInputs : SetName(c, name)

NamesSpec == Init /\ [][NamesNext]_vars

(***************************************************************************)
(* Vocabulary of the properties                                            *)
(***************************************************************************)
Succeeded == last.how \in {"return", "resolve"}
Failed    == last.how \in {"throw", "reject"}

\* The convention the Command's mode prescribes for a failure
FailureOfMode == IF is_async THEN "reject" ELSE "throw"

FailedWith(message) ==
    /\ Failed
    /\ last.err # <<>>
    /\ last.err[1].type = "CommandError"
    /\ last.err[1].message = message

\* The names of the Arguments whose parse was called, in call order
IsParseCall(c) == c.fn = "parse"
IsPreCall(c) == c.fn = "preprocessor"
IsHandlerCall(c) == c.fn = "handler"
IsErrorCall(c) == c.fn = "error"
ParsedNames == LET calls == SelectSeq(last.log, IsParseCall)
               IN  [i \in 1..Len(calls) |-> calls[i].arg]

NameSeq(set) == [i \in 1..Len(set) |-> set[i].name]
NameSet(set) == {set[i].name : i \in 1..Len(set)}

IsPrefix(a, b) == Len(a) <= Len(b) /\ \A i \in 1..Len(a) : a[i] = b[i]

\* The held sets whose length is n
SetsOfLen(n) == {i \in 1..Len(argsets) : Len(argsets[i]) = n}

WrongNumber == "Wrong number of arguments! See command help for details"

SayArgsets ==
    << <<Argument("first", FALSE, FALSE, "none")>>,
       <<Argument("first", FALSE, FALSE, "none"),
         Argument("extras", TRUE, TRUE, "none")>> >>

\* C2: the README's Command 'say' (sets [first] and [first, extras], extras
\* varargs) given more tokens than its largest set has Arguments succeeds:
\* first receives the first token and extras the list of all remaining
\* tokens in order.
C2_VarargsSetTakesMoreTokens ==
    ( /\ last.op = "parse"
      /\ argsets = applyAsyncToArgsets(SayArgsets, is_async)
      /\ Len(last.parts) > Len(SayArgsets[2]) ) =>
        /\ Succeeded
        /\ "first" \in DOMAIN last.value.args
        /\ "extras" \in DOMAIN last.value.args
        /\ last.value.args["first"] = Str(last.parts[1])
        /\ last.value.args["extras"] = Arr(StrAll(Tail(last.parts)))

(***************************************************************************)
(* C3                                                                      *)
(***************************************************************************)
IsPlain(arg) == ~arg.optional /\ ~arg.varargs

\* The Command holds exactly one set, of required non-varargs Arguments
OneRequiredSet ==
    /\ Len(argsets) = 1
    /\ \A i \in 1..Len(argsets[1]) : IsPlain(argsets[1][i])

TooFew(arg) == "Too few arguments! Missing argument <" \o arg.name \o ">"
TooMany(toks) == "Too many arguments! Extras: " \o JoinQuoted(toks)

\* What the arity alone says about parts against the one held set: the
\* first Argument without a token is missing, or the tokens beyond the set
\* are extras in their original order.
ArityVerdict(set, parts) ==
    /\ Len(parts) < Len(set) => FailedWith(TooFew(set[Len(parts) + 1]))
    /\ Len(parts) > Len(set) =>
           FailedWith(TooMany(SubSeq(parts, Len(set) + 1, Len(parts))))

\* The positions of set whose Argument receives a token that its
\* preprocessor rejects
RejectedAt(set, parts) ==
    {i \in 1..Len(set) :
        /\ i <= Len(parts)
        /\ set[i].pre # "none"
        /\ PreThrows(set[i].pre, Str(parts[i]))}

BadValue(arg, tok) == "Bad <" \o arg.name \o "> value '" \o tok \o "'"

\* C3 as claimed: with exactly one argument set of required non-varargs
\* Arguments, fewer tokens than Arguments fail with 'Too few arguments!
\* Missing argument <name>' naming the first Argument without a token, and
\* more tokens fail with 'Too many arguments' listing the leftover tokens in
\* their original order.
C3_ArityErrors ==
    (last.op = "parse" /\ OneRequiredSet) => ArityVerdict(argsets[1], last.parts)

\* C3, amended: the same, unless the preprocessor of an Argument that did
\* receive a token throws; then the parse fails with the 'Bad <name> value'
\* error of the first such Argument, whatever the token count.  In neither
\* case is the arity checked before the Arguments are parsed.
C3_ArityErrorsUnlessPreprocessorThrows ==
    (last.op = "parse" /\ OneRequiredSet) =>
        LET set == argsets[1]
            bad == RejectedAt(set, last.parts)
        IN  IF bad = {}
            THEN /\ ArityVerdict(set, last.parts)
                 /\ Len(last.parts) # Len(set) =>
                        Len(ParsedNames) = IF Len(last.parts) < Len(set)
                                           THEN Len(last.parts) + 1
                                           ELSE Len(set)
            ELSE LET i == CHOOSE i \in bad : \A j \in bad : i <= j
                 IN  FailedWith(BadValue(set[i], last.parts[i]))

\* One set [first, num] is given the single token 'a': num is missing
C3_Witness ==
    /\ last.op = "parse"
    /\ OneRequiredSet
    /\ Len(argsets[1]) = 2
    /\ last.parts = <<"a">>
    /\ FailedWith("Too few arguments! Missing argument <num>")

(***************************************************************************)
(* C4, C5, C6: the argument set rules                                      *)
(***************************************************************************)
\* The step is a rejected addArgSet call: SetupError, nothing added
Rejected ==
    /\ argsets' = argsets
    /\ last'.op = "addArgSet"
    /\ last'.how = "throw"
    /\ last'.err # <<>>
    /\ last'.err[1].type = "SetupError"

RejectedWith(message) ==
    /\ last.op = "addArgSet"
    /\ last.how = "throw"
    /\ last.err = <<SetupError(pre \o ": " \o message)>>

DistinctLengths(sets) ==
    \A i, j \in 1..Len(sets) : i # j => Len(sets[i]) # Len(sets[j])

\* C4: no two argument sets held by the Command have the same length, and
\* an addArgSet call whose set has the length of a held set throws
\* SetupError and adds nothing.
C4_DistinctLengths ==
    /\ DistinctLengths(argsets)
    /\ [][ /\ DistinctLengths(argsets')
           /\ \A argset \in FlagArgsetInputs :
                  (SetsOfLen(Len(argset)) # {} /\ AddArgSet(argset)) => Rejected
         ]_vars

\* A set of length 1 is rejected by a Command that holds one
C4_Witness ==
    /\ RejectedWith("Multiple sets of length 1")
    /\ SetsOfLen(1) # {}

\* Only the last Argument of the set may be optional or varargs
FlagsOnlyLast(set) ==
    \A i \in 1..(Len(set) - 1) : ~set[i].optional /\ ~set[i].varargs

\* C5: every held argument set has no optional and no varargs Argument at
\* any position but its last, and an addArgSet call with a set in which an
\* optional or varargs Argument is followed by another Argument throws
\* SetupError and adds nothing, whatever the flags of the other Arguments.
C5_OptionalAndVarargsLast ==
    /\ \A i \in 1..Len(argsets) : FlagsOnlyLast(argsets[i])
    /\ [][ /\ \A i \in 1..Len(argsets') : FlagsOnlyLast(argsets'[i])
           /\ \A argset \in FlagArgsetInputs :
                  (~FlagsOnlyLast(argset) /\ AddArgSet(argset)) => Rejected
         ]_vars

\* A set with an optional Argument before its last position is rejected for
\* that reason
C5_Witness == RejectedWith("optional argument must be last in set")

\* At most one set has a varargs Argument, and it is strictly the longest
VarargsSetLargest(sets) ==
    \A i \in 1..Len(sets) :
        hasVarargs(sets[i]) =>
            \A j \in 1..Len(sets) :
                i # j => (~hasVarargs(sets[j]) /\ Len(sets[j]) < Len(sets[i]))

\* C6: at most one held set contains a varargs Argument and that set is
\* strictly longer than every other held set; the rule is checked against
\* all held sets on every add, so that a non-varargs set longer than the held
\* varargs set is rejected with SetupError, as is a varargs set that is not
\* longer than every held set.
C6_VarargsSetLargest ==
    /\ VarargsSetLargest(argsets)
    /\ [][ /\ VarargsSetLargest(argsets')
           /\ \A argset \in FlagArgsetInputs :
                  ( /\ \/ /\ ~hasVarargs(argset)
                          /\ \E i \in 1..Len(argsets) :
                                 /\ hasVarargs(argsets[i])
                                 /\ Len(argset) > Len(argsets[i])
                       \/ /\ hasVarargs(argset)
                          /\ \E i \in 1..Len(argsets) :
                                 Len(argsets[i]) >= Len(argset)
                    /\ AddArgSet(argset) ) => Rejected
         ]_vars

\* A longer non-varargs set is rejected by a Command that holds a varargs
\* set and nothing else
C6_Witness ==
    /\ RejectedWith("set containing varargs must be largest set")
    /\ Len(argsets) = 1
    /\ hasVarargs(argsets[1])

(***************************************************************************)
(* C7                                                                      *)
(***************************************************************************)
AtLeastOne(name) ==
    "Too few arguments! Argument <" \o name \o "> requires at least one value."

\* The names of the required varargs Arguments whose parse the call reached
\* with no token left for them
StarvedVarargs ==
    {last.log[c].arg : c \in
        {c \in 1..Len(last.log) :
            /\ last.log[c].fn = "parse"
            /\ last.log[c].input = Arr(<<>>)
            /\ \E i \in 1..Len(argsets) : \E j \in 1..Len(argsets[i]) :
                   /\ argsets[i][j].name = last.log[c].arg
                   /\ argsets[i][j].varargs
                   /\ ~argsets[i][j].optional}}

\* C7: a required varargs Argument never accepts zero tokens: when
\* Command.parse reaches one with no tokens left for it, the parse fails with
\* the 'requires at least one value' error instead of producing an empty list.
\* (Command.parse hands the Argument its working copy, an empty array and not
\* an absent value, so that parse([]) on the one set [rest] returns
\* { _: [], rest: [] }.)
C7_RequiredVarargsNeedsAToken ==
    last.op = "parse" =>
        \A name \in StarvedVarargs : FailedWith(AtLeastOne(name))

(***************************************************************************)
(* C8, C9                                                                  *)
(***************************************************************************)
\* The set a successful parse of last.parts went through
MatchedSet == SelectArgset(argsets, Len(last.parts))[1]

\* C8: the structure a successful parse returns has exactly one key per
\* Argument of the matched set, holding the value parsed by that Argument,
\* plus the key '_' holding the raw token list as given, and no other keys.
C8_OneKeyPerArgument ==
    (last.op = "parse" /\ Succeeded) =>
        LET set == MatchedSet
            args == last.value.args
            parsed == SelectSeq(last.log, IsParseCall)
        IN  /\ DOMAIN args = NameSet(set) \cup {"_"}
            /\ Cardinality(DOMAIN args) = Len(set) + 1
            /\ args["_"] = Arr(StrAll(last.parts))
            /\ \A i \in 1..Len(set) :
                   args[set[i].name] = parseStart(set[i], parsed[i].input).val

\* C9: Command.parse does not change the token array of the caller, and the
\* '_' field of the result equals that array's contents as given.
C9_TokensUntouched ==
    last.op = "parse" =>
        /\ last.parts_after = last.parts
        /\ Succeeded =>
               /\ "_" \in DOMAIN last.value.args
               /\ last.value.args["_"] = Arr(StrAll(last.parts))

(***************************************************************************)
(* C10                                                                     *)
(***************************************************************************)
\* What Command.parse does with the tokens of the latest call
ParseOfLast == CommandParse(argsets, is_async, last.parts)

HandlerCalls == SelectSeq(last.log, IsHandlerCall)

\* C10: Command.execute calls the handler at most once, and exactly when a
\* handler is set and the parse of the whole matched set succeeded: then the
\* call comes after every call the parse made and receives the parsed
\* structure followed by the forwarded values, and execute returns (or
\* resolves to) what the handler returns.  When the parse fails the handler
\* is not called.  With no handler set execute still parses: a successful
\* parse makes it return (or resolve to) nothing, and a parse error reaches
\* the caller when no error handler is set.
C10_HandlerAfterParse ==
    last.op = "execute" =>
        LET p == ParseOfLast
        IN  /\ Len(HandlerCalls) <= 1
            /\ Len(HandlerCalls) = 1 <=> (handler # "none" /\ p.err = <<>>)
            /\ IsPrefix(p.log, last.log)
            /\ Len(HandlerCalls) = 1 =>
                   /\ Len(last.log) > Len(p.log)
                   /\ last.log[Len(p.log) + 1] = HandlerCall(p.parsed, last.forward)
                   /\ Len(SelectSeq(p.log, IsParseCall)) = Len(MatchedSet)
            /\ (handler = "ret" /\ p.err = <<>>) =>
                   /\ last.how = IF is_async THEN "resolve" ELSE "return"
                   /\ last.value = HandledValue(p.parsed, last.forward)
            /\ (handler = "none" /\ p.err = <<>>) =>
                   /\ last.how = IF is_async THEN "resolve" ELSE "return"
                   /\ last.value = NoValue
                   /\ last.log = p.log
            /\ (handler = "none" /\ handler_err = "none" /\ p.err # <<>>) =>
                   /\ last.how = FailureOfMode
                   /\ last.err = p.err

\* An async Command with two Arguments and a handler resolves to what the
\* handler returns for the parsed structure and the forwarded value
C10_Witness ==
    /\ last.op = "execute"
    /\ handler = "ret"
    /\ Len(argsets) = 1
    /\ Len(argsets[1]) = 2
    /\ last.parts = <<"a", "a">>
    /\ last.forward = <<"fwd">>
    /\ last.how = "resolve"
    /\ last.value.kind = "handled"
    /\ last.value.args["num"] = Str("#a")

(***************************************************************************)
(* C11, C12, C13: errors arising in execute                                *)
(***************************************************************************)
ErrorCalls == SelectSeq(last.log, IsErrorCall)

\* The handler of the latest execute call was reached and threw
HandlerFailed == ParseOfLast.err = <<>> /\ HandlerThrows(handler)

\* The error arising in the latest execute call, as #executeHandleError
\* routes it: the error of the parse, or the 'Command failed' error around
\* what the handler threw; empty when there is none.
ExecuteError ==
    IF ParseOfLast.err # <<>> THEN ParseOfLast.err
    ELSE IF HandlerThrows(handler)
    THEN <<wrap(CommandError("Command failed", <<HandlerThrown(handler)>>))>>
    ELSE <<>>

SuccessOfMode == IF is_async THEN "resolve" ELSE "return"

\* C11: with an error handler set, every error arising in execute (parse
\* failure or handler failure) is passed exactly once to the error handler
\* together with the forwarded values; what the error handler returns is the
\* result of execute, and execute fails only when the error handler itself
\* throws; in sync and async mode alike, up to the calling convention.
C11_ErrorHandlerTakesEveryError ==
    (last.op = "execute" /\ handler_err # "none") =>
        IF ExecuteError # <<>>
        THEN /\ ErrorCalls = <<ErrorCall(ExecuteError[1], last.forward)>>
             /\ last.log[Len(last.log)] = ErrorCalls[1]
             /\ handler_err = "ret" =>
                    /\ last.how = SuccessOfMode
                    /\ last.err = <<>>
                    /\ last.value = RecoveredValue(ExecuteError[1], last.forward)
             /\ handler_err = "throw" => last.how = FailureOfMode
        ELSE /\ ErrorCalls = <<>>
             /\ last.how = SuccessOfMode

\* An async Command whose parse fails resolves to what the error handler
\* returns for the error and the forwarded value
C11_Witness ==
    /\ last.op = "execute"
    /\ handler_err = "ret"
    /\ is_async
    /\ ParseOfLast.err # <<>>
    /\ last.forward = <<"fwd">>
    /\ last.how = "resolve"
    /\ last.value.kind = "recovered"
    /\ Len(ErrorCalls) = 1

\* The error of the latest execute call as routed to the error handler, or
\* to the caller when no error handler is set
RoutedError ==
    IF handler_err # "none" THEN ErrorCalls[1].err[1] ELSE last.err[1]

CommandFailed == "Command failed"

\* The 'Command failed' layer around E, up to its full_message
FailedLayer(err) ==
    /\ err.type = "CommandError"
    /\ err.message = CommandFailed
    /\ err.nested = <<HandlerThrown(handler)>>
    /\ err.command

C13_ErrorHandlerThrowRewrapped ==
    (last.op = "execute" /\ handler_err = "throw" /\ ExecuteError # <<>>) =>
        /\ last.how = FailureOfMode
        /\ last.err # <<>>
        /\ last.err[1].type = "CommandError"
        /\ last.err[1] # UserError("error handler err")

(***************************************************************************)
(* C14, C15, C16: Argument.parse on its own                                *)
(***************************************************************************)
\* The value handed to the latest Argument.parse call
ParseInput == last.log[1].input

\* The values the preprocessor is applied to: the input in single mode, its
\* elements in varargs mode
Elements ==
    IF argument.varargs THEN asArray(ParseInput) ELSE <<ParseInput>>

\* The positions of the values for which the preprocessor throws, or
\* returns a Promise that rejects
FailingAt ==
    {i \in 1..Len(Elements) : PreThrows(argument.pre, Elements[i])}

\* The latest call is an Argument.parse call in which the preprocessor threw
\* or, the Argument being in async mode, returned a Promise that rejected
PreprocessorFailed ==
    /\ last.op = "Argument.parse"
    /\ ~IsIllTyped(ParseInput)
    /\ argument.pre # "none"
    /\ PreIsAsync(argument.pre) => argument.async
    /\ FailingAt # {}

FirstFailing == CHOOSE i \in FailingAt : \A j \in FailingAt : i <= j

InstanceOf(err, type) ==
    type \in (IF err.type = "string" THEN {} ELSE {err.type, "Error"})

\* C15: the error Argument.parse raises for a preprocessor failure has the
\* runtime type of the error the preprocessor threw: a preprocessor throwing
\* a RangeError makes parse throw, or reject with, a RangeError.
C15_PreprocessorErrorTypeKept ==
    PreprocessorFailed =>
        /\ Failed
        /\ InstanceOf(last.err[1], PreThrown(argument.pre).type)

\* C16: an Argument in async mode never throws synchronously and never
\* returns a plain value from parse: for every input, absent, a string, a
\* list or a value of a wrong type, it returns a Promise.
C16_AsyncParseAlwaysDeferred ==
    (last.op = "Argument.parse" /\ argument.async) =>
        last.how \in {"resolve", "reject"}

(***************************************************************************)
(* C18: sync and async mode                                                *)
(***************************************************************************)
\* The latest parse or execute call made again on the same Command switched
\* to the other mode (asynchronous(!is_async))
InOtherMode ==
    IF last.op = "parse"
    THEN ParseOutcome(CommandParse(applyAsyncToArgsets(argsets, ~is_async),
                                   ~is_async, last.parts))
    ELSE CommandExecute(applyAsyncToArgsets(argsets, ~is_async), ~is_async,
                        handler, handler_err, last.parts, last.forward)

\* Whether a call ended well, whatever the calling convention
EndedWell(how) == how \in {"return", "resolve"}

\* C18: with synchronous preprocessors, handler and error handler, a parse
\* or execute call resolves in async mode to the value it returns in sync
\* mode, and rejects in async mode exactly when it throws in sync mode, with
\* the same error (message and nested cause) and the same user functions
\* called in the same order; only the calling convention differs.
C18_AsyncEqualsSync ==
    last.op \in {"parse", "execute"} =>
        /\ last.how \in {SuccessOfMode, FailureOfMode}
        /\ InOtherMode.how \in (IF is_async THEN {"return", "throw"}
                                 ELSE {"resolve", "reject"})
        /\ EndedWell(InOtherMode.how) <=> EndedWell(last.how)
        /\ InOtherMode.value = last.value
        /\ InOtherMode.err = last.err
        /\ InOtherMode.log = last.log

\* An async Command rejects with the 'Command failed' error of a throwing
\* handler, after the preprocessor of num and the handler were called
C18_Witness ==
    /\ last.op = "execute"
    /\ is_async
    /\ handler = "throw"
    /\ handler_err = "none"
    /\ last.how = "reject"
    /\ last.err[1].message = CommandFailed
    /\ \E i \in 1..Len(last.log) : last.log[i].fn = "preprocessor"
    /\ InOtherMode.how = "throw"

(***************************************************************************)
(* C17: async mode never throws synchronously                              *)
(***************************************************************************)
IsDefaultCall(c) == c.fn = "default"

\* The mode of the object the latest call was made on: the registry for
\* CommandRegistry.execute, the Command for Command.parse and Command.execute
ModeOfCallee ==
    IF last.op = "registry.execute" THEN registry.is_async ELSE is_async

\* Whether a user function called by the latest call threw
UserFunctionThrew ==
    \/ \E i \in 1..Len(last.log) :
           /\ IsPreCall(last.log[i])
           /\ PreThrows("check", last.log[i].input)
    \/ \E i \in 1..Len(last.log) :
           IsHandlerCall(last.log[i]) /\ HandlerThrows(handler)
    \/ \E i \in 1..Len(last.log) :
           IsErrorCall(last.log[i]) /\ handler_err = "throw"
    \/ \E i \in 1..Len(last.log) :
           IsDefaultCall(last.log[i]) /\ registry.default_handler = "default"

\* C17: in async mode Command.parse, Command.execute and
\* CommandRegistry.execute hand back a deferred value for every string and
\* every token array: the call ends as a resolution or as a rejection, never
\* as a plain return or a synchronous throw, also when a preprocessor, the
\* handler, the error handler or the default handler threw synchronously.
C17_AsyncNeverThrowsSynchronously ==
    (last.op \in {"parse", "execute", "registry.execute"} /\ ModeOfCallee)
        => /\ last.how \in {"resolve", "reject"}
           /\ last.err # <<>> => last.how = "reject"

\* An async registry rejects with what the default default handler threw
\* for a string naming no Command
C17_Witness ==
    /\ last.op = "registry.execute"
    /\ last.text
    /\ registry.is_async
    /\ registry.default_handler = "default"
    /\ split(last.parts) = <<"bad">>
    /\ \E i \in 1..Len(last.log) : IsDefaultCall(last.log[i])
    /\ UserFunctionThrew
    /\ last.how = "reject"
    /\ last.err[1] = UserError("Unrecognized command 'bad'")

(***************************************************************************)
(* C19, C20: owners and their async setting                                *)
(***************************************************************************)
\* The further Commands holding the Argument object a
Owners(a) == {c \in DOMAIN cmds : a \in Held(cmds[c])}

\* Each Argument object is in the argument sets of one Command at most
Exclusive == \A a \in DOMAIN arg_async : Cardinality(Owners(a)) <= 1

ArgumentsFollowCommand ==
    \A c \in DOMAIN cmds : \A a \in Held(cmds[c]) :
        arg_async[a] = cmds[c].is_async

CommandsFollowRegistry ==
    \A c \in Values(registry.commands) \cap DOMAIN cmds :
        cmds[c].is_async = registry.is_async

\* C19: after any sequence of CommandRegistry.add, asynchronous and
\* helpHandler, Command.addArgSet, Command.asynchronous (on Commands in no
\* registry) and Argument.asynchronous (on Arguments no Command holds), with
\* each Argument held by one Command only, every Argument of a Command has
\* the async flag of the Command and every Command of the registry has the
\* async flag of the registry.
C19_OwnerSettingWins ==
    Exclusive => ArgumentsFollowCommand /\ CommandsFollowRegistry

\* An async registry holds c1 and the help Command, whose Arguments are
\* async with them, next to the sync Command c2 outside it, whose Argument
\* is sync although every object was made sync
C19_Witness ==
    /\ Exclusive
    /\ registry.is_async
    /\ DOMAIN registry.commands = {"c1", HelpName}
    /\ cmds["c1"].argsets = << <<"x">> >>
    /\ cmds["c1"].is_async /\ arg_async["x"]
    /\ cmds[HelpName].is_async /\ arg_async[HelpArg]
    /\ cmds["c2"].argsets = << <<"y">> >>
    /\ ~cmds["c2"].is_async /\ ~arg_async["y"]

\* C20: an Argument is owned by exactly one Command: no sequence of
\* addArgSet calls puts the same Argument object into the argument sets of
\* two Commands, so every Argument has the async flag of the one Command
\* holding it.
C20_ArgumentOwnedByOneCommand ==
    /\ \A c, d \in DOMAIN cmds :
           c # d => Held(cmds[c]) \cap Held(cmds[d]) = {}
    /\ ArgumentsFollowCommand

(***************************************************************************)
(* C24, C25: Argument.parse without a preprocessor, and without a value   *)
(***************************************************************************)
\* The value the latest Argument.parse call handed back
ParsedOutput == last.value.args["value"]

\* C24: an Argument with no preprocessor, whatever its optional and varargs
\* flags, parses a string or a list of strings x to x itself in single mode
\* and to the list of its elements in varargs mode (a string being a list of
\* one element), the empty string included.
C24_ValuePassedThrough ==
    (/\ last.op = "Argument.parse"
     /\ argument.pre = "none"
     /\ ParseInput.k \in {"string", "array"})
        => /\ Succeeded
           /\ ParsedOutput = IF argument.varargs THEN Arr(asArray(ParseInput))
                             ELSE ParseInput

\* C25: Argument.parse of undefined or null fails with 'Too few arguments!
\* Missing argument <name>' for a required single Argument and with
\* '... requires at least one value.' for a required varargs Argument,
\* hands back null for an optional single Argument and the empty list for an
\* optional varargs Argument, and calls the preprocessor in none of the four
\* cases.
C25_AbsentInput ==
    (last.op = "Argument.parse" /\ IsNullish(ParseInput))
        => /\ \A i \in 1..Len(last.log) : ~IsPreCall(last.log[i])
           /\ IF argument.optional
              THEN /\ Succeeded
                   /\ ParsedOutput = IF argument.varargs THEN Arr(<<>>) ELSE Null
              ELSE /\ Failed
                   /\ last.err[1] = CommandError(
                          IF argument.varargs
                          THEN "Too few arguments! Argument <" \o argument.name
                                   \o "> requires at least one value."
                          ELSE "Too few arguments! Missing argument <"
                                   \o argument.name \o ">",
                          <<>>)

\* A required varargs Argument with a preprocessor was handed null and
\* failed without calling it
C25_Witness ==
    /\ last.op = "Argument.parse"
    /\ ParseInput = Null
    /\ argument.varargs /\ ~argument.optional
    /\ argument.pre = "check"
    /\ last.how = "throw"
    /\ last.err[1].message =
           "Too few arguments! Argument <test> requires at least one value."
    /\ Len(last.log) = 1

(***************************************************************************)
(* C22, C29, C30: CommandRegistry.execute                                  *)
(***************************************************************************)
\* The words of a string: its maximal runs of pieces that are no whitespace
RECURSIVE Words(_)
Words(pieces) ==
    IF pieces = <<>> THEN <<>>
    ELSE IF Head(pieces) \in Whitespace THEN Words(Tail(pieces))
    ELSE LET end == CHOOSE n \in 1..Len(pieces) :
                        /\ \A i \in 1..n : pieces[i] \notin Whitespace
                        /\ n < Len(pieces) => pieces[n + 1] \in Whitespace
         IN  <<StringOf(SubSeq(pieces, 1, end))>>
                 \o Words(SubSeq(pieces, end + 1, Len(pieces)))

\* The token list of the latest call: the words of the string, or the array
\* as it was handed in
TokenizedInput == IF last.text THEN Words(last.parts) ELSE last.parts

DefaultCalls == {i \in 1..Len(last.log) : IsDefaultCall(last.log[i])}

\* The first token names the Command of the registry
Dispatched ==
    /\ TokenizedInput # <<>>
    /\ Head(TokenizedInput) \in DOMAIN registry.commands

\* Command.execute of the named Command with the remaining tokens
Delegated ==
    CommandExecute(argsets, is_async, handler, handler_err,
                   Tail(TokenizedInput), last.forward)

\* C22: CommandRegistry.execute splits a string on runs of whitespace and
\* drops the empty tokens; the first token is the command name.  When a
\* Command of that name is registered, only its execute is called, with the
\* remaining tokens (the handler's '_' holds no command name), and its
\* result is handed back; else, when a default handler is set, only the
\* default handler is called and its result is handed back; else nothing is
\* called and nothing is handed back.
C22_RegistryExecuteDispatch ==
    last.op = "registry.execute" =>
        IF Dispatched
        THEN /\ last.value = Delegated.value
             /\ last.err = Delegated.err
             /\ last.log = Delegated.log
             /\ EndedWell(last.how) <=> EndedWell(Delegated.how)
             /\ DefaultCalls = {}
             /\ \A i \in 1..Len(last.log) :
                    IsHandlerCall(last.log[i]) =>
                        last.log[i].args["_"] = Arr(StrAll(Tail(TokenizedInput)))
        ELSE IF registry.default_handler # "none"
        THEN /\ Len(last.log) = 1
             /\ IsDefaultCall(last.log[1])
             /\ IF registry.default_handler = "default"
                THEN Failed /\ last.err[1].type = "Error"
                ELSE /\ Succeeded
                     /\ last.value.kind = "defaulted"
                     /\ last.value.forward = last.forward
        ELSE /\ last.log = <<>>
             /\ Succeeded
             /\ last.value = NoValue

\* 'test  test' with the Command registered: the handler was called with the
\* one token after the name
C22_Witness ==
    /\ last.op = "registry.execute"
    /\ last.text
    /\ last.parts = <<"test", " ", "test">>
    /\ Dispatched
    /\ handler = "ret"
    /\ Succeeded
    /\ last.value.kind = "handled"
    /\ last.value.args["_"] = Arr(<<Str("test")>>)

\* C29: the default handler CommandRegistry.execute falls back to receives
\* the whole token list of the input, command name included, with the same
\* length and the same tokens in the same order, for the empty string, a
\* string of whitespace and the empty array as well, followed by the
\* forwarded values unchanged.
C29_DefaultHandlerTakesTokenList ==
    last.op = "registry.execute" =>
        \A i \in DefaultCalls :
            /\ last.log[i].input = Arr(StrAll(TokenizedInput))
            /\ last.log[i].forward = last.forward

\* C30: CommandRegistry.execute with a token array leaves the array of the
\* caller as it was: same length, same tokens, same order, whether the name
\* is registered or not and whether the command fails or not.
C30_CallerArrayUntouched ==
    (last.op = "registry.execute" /\ ~last.text) =>
        last.parts_after = last.parts

(***************************************************************************)
(* C21: names in a registry                                                *)
(***************************************************************************)
\* C21: in every state reached through CommandRegistry.add,
\* CommandRegistry.helpHandler and the name setter of Command, no two
\* Commands of the registry have the same name and each is held under its
\* current name; an add of a Command whose name is present throws a
\* SetupError.
C21_UniqueCurrentNames ==
    /\ \A c, d \in Values(registry.commands) :
           c # d => NameOf(c) # NameOf(d)
    /\ \A name \in DOMAIN registry.commands :
           NameOf(registry.commands[name]) = name
    /\ last.op = "add" =>
           /\ last.how = "throw"
           /\ last.err[1].type = "SetupError"

(***************************************************************************)
(* C23: CommandRegistry.help                                               *)
(***************************************************************************)
\* C23: CommandRegistry.help does nothing and hands back nothing as long as
\* no help command was set up through helpHandler: no handler of any kind
\* is called and nothing is thrown, whether a default handler is set or not.
C23_HelpWithoutHelpCommand ==
    (last.op = "registry.help" /\ HelpName \notin DOMAIN registry.commands)
        => /\ last.log = <<>>
           /\ Succeeded
           /\ last.value = NoValue

(***************************************************************************)
(* C26: the Arguments of an async parse, one after the other               *)
(***************************************************************************)
\* The calls of preprocessors among the events of a call in flight
CallsIn(fl) == {k \in 1..Len(fl.events) : fl.events[k].e = "call"}

\* Between the events m and k the result of the call at m was fulfilled
FulfilledBetween(fl, m, k) ==
    \E n \in (m + 1)..(k - 1) :
        /\ fl.events[n].e = "fulfilled"
        /\ fl.events[n].pos = fl.events[m].pos
        /\ fl.events[n].index = fl.events[m].index

\* The token the preprocessor called at event k is due: the one at the
\* position of its Argument, or, for a varargs Argument, the one as many
\* places further as the index of the element says
TokenDue(fl, k) ==
    IF fl.set[fl.events[k].pos].varargs
    THEN fl.tokens[fl.events[k].pos + fl.events[k].index - 1]
    ELSE fl.tokens[fl.events[k].pos]

\* The elements a varargs Argument at position pos is due: every token
\* from that position on
TokensFrom(fl, pos) == SubSeq(fl.tokens, pos, Len(fl.tokens))

\* C26: in an async parse the Arguments of the selected set are taken one
\* at a time in set order.  A preprocessor of an Argument is called only
\* after every result of the preprocessors of the earlier Arguments was
\* fulfilled, so never while one is pending and never after one failed;
\* it is called on the token at the position of its Argument, and a
\* varargs Argument is handed exactly the tokens from its position on.
C26_ArgumentsOneAtATime ==
    \A f \in DOMAIN flights :
        /\ \A k \in CallsIn(flights[f]) :
              /\ \A m \in CallsIn(flights[f]) :
                    (m < k /\ flights[f].events[m].pos < flights[f].events[k].pos)
                        => FulfilledBetween(flights[f], m, k)
              /\ \A m \in 1..(k - 1) :
                    flights[f].events[m].e = "rejected"
                        => flights[f].events[k].pos = flights[f].events[m].pos
              /\ flights[f].events[k].input = Str(TokenDue(flights[f], k))
        /\ (flights[f].i > 0 /\ flights[f].set[flights[f].i].varargs
                /\ flights[f].err = <<>>)
              => flights[f].elems
                     = StrAll(TokensFrom(flights[f], flights[f].i))

\* A call that went through a single Argument and a varargs Argument, each
\* with a preprocessor that returns Promises, and resolved
C26_Witness ==
    \E f \in DOMAIN flights :
        /\ flights[f].phase = "done"
        /\ flights[f].out.how = "resolve"
        /\ Len(flights[f].set) = 2
        /\ flights[f].set[2].varargs
        /\ Len(flights[f].tokens) = 3
        /\ \E k \in CallsIn(flights[f]) : flights[f].events[k].pos = 1
        /\ \E k \in CallsIn(flights[f]) :
              flights[f].events[k].pos = 2 /\ flights[f].events[k].index = 2

(***************************************************************************)
(* C27: pending preprocessor results                                       *)
(***************************************************************************)
\* The elements of the awaited Argument whose preprocessor fails
FailingElements(fl) ==
    {j \in 1..Len(fl.elems) :
        applyPreprocessor(fl.set[fl.i], fl.elems[j],
                          indexOf(fl.set[fl.i], j)).err # <<>>}

\* What arg.parse rejects with when the failure of element j is reported
ErrorOfElement(fl, j) ==
    applyPreprocessor(fl.set[fl.i], fl.elems[j], indexOf(fl.set[fl.i], j)).err

Lowest(S) == CHOOSE j \in S : \A k \in S : j <= k

\* The rejections among the events of a call in flight
RejectionsIn(fl) == {k \in 1..Len(fl.events) : fl.events[k].e = "rejected"}

\* The calls of preprocessors whose result is still pending
Unsettled(fl) ==
    {k \in CallsIn(fl) :
        ~\E n \in (k + 1)..Len(fl.events) :
            /\ fl.events[n].e \in {"fulfilled", "rejected"}
            /\ fl.events[n].pos = fl.events[k].pos
            /\ fl.events[n].index = fl.events[k].index}

\* C27: within one async parse call at most one preprocessor result is
\* pending at any moment, the elements of a varargs Argument included
\* (the preprocessor of an element is not started before the result of
\* the element before it has settled), and when several elements fail
\* the error of the failing element of lowest index is the one reported.
C27_OnePendingResult ==
    \A f \in DOMAIN flights :
        /\ Cardinality(Unsettled(flights[f])) <= 1
        /\ (flights[f].err # <<>> /\ FailingElements(flights[f]) # {})
              => flights[f].err
                     = ErrorOfElement(flights[f],
                                      Lowest(FailingElements(flights[f])))

\* C27, as the code has it: within one async parse call the pending
\* preprocessor results all belong to one Argument, the one awaited, and
\* only a varargs Argument has more than one: the preprocessors of all its
\* elements are called before any of their results settles.  When several
\* elements fail, the error reported is that of the element whose result
\* was rejected first.
C27_OnePendingArgument ==
    \A f \in DOMAIN flights :
        /\ \A k \in Unsettled(flights[f]) :
              /\ flights[f].events[k].pos = flights[f].i
              /\ flights[f].events[k].index \in flights[f].pend
        /\ Cardinality(Unsettled(flights[f])) > 1
              => flights[f].set[flights[f].i].varargs
        /\ (flights[f].err # <<>> /\ RejectionsIn(flights[f]) # {})
              => flights[f].err
                     = ErrorOfElement(flights[f],
                           flights[f].events[
                               Lowest(RejectionsIn(flights[f]))].index)

\* A call whose varargs Argument had two failing elements, the second of
\* which was rejected first and is the one reported
C27_Witness ==
    \E f \in DOMAIN flights :
        /\ flights[f].phase = "done"
        /\ flights[f].out.how = "reject"
        /\ {1, 2} \subseteq FailingElements(flights[f])
        /\ flights[f].events[Lowest(RejectionsIn(flights[f]))].index = 2
        /\ flights[f].err = ErrorOfElement(flights[f], 2)
        /\ flights[f].pend = {}

(***************************************************************************)
(* C28: calls in flight together                                           *)
(***************************************************************************)
\* C28: two async parse or execute calls on the same Command that are in
\* flight together, the results of their preprocessors and handlers
\* settling in any order, do not interfere: each settles to a result it
\* can settle to when it runs alone on its own tokens.
C28_CallsDoNotInterfere ==
    \A f \in DOMAIN flights :
        flights[f].phase = "done"
            => flights[f].out \in Alone(CommandConfig, flights[f].op,
                                        flights[f].tokens, flights[f].forward)

\* The second call began, went through two Arguments and resolved while
\* the first, on other tokens, was still awaiting its second Argument
C28_Witness ==
    /\ Len(flights) = 2
    /\ flights[1].phase = "arg"
    /\ flights[1].i = 2
    /\ flights[1].pend # {}
    /\ flights[2].phase = "done"
    /\ flights[2].out.how = "resolve"
    /\ Len(flights[2].set) = 2
    /\ flights[2].tokens # flights[1].tokens
    /\ flights[2].op = "execute"

====
